---------------------------- MODULE Spec2Model ----------------------------
(***************************************************************************)
(* A model of hipermap (starius/hipermap): the LRU cache (cache.c), the    *)
(* static prefix map (static_map.cpp), the static 64-bit map and set       *)
(* (static_uint64_map.c, static_uint64_set.c) and the static domain set    *)
(* (static_domain_set.cpp, static_domain_set_find.c).                      *)
(*                                                                         *)
(* Each structure has its own specification (CacheSpec, ...): the          *)
(* variables of the other structures keep their initial values.            *)
(***************************************************************************)
EXTENDS Integers, Sequences, FiniteSets, TLC

VARIABLES
  \* cache.c: struct hm_cache and the caller's output arguments
  list_storage,   \* element index -> [ip, prev_index, next_index, value]
  nodes,          \* the LRU list: [head_index, tail_index]
  free_nodes,     \* the free list: [head_index, tail_index]
  hash_table,     \* cell -> element index or NO_INDEX
  cache_out,      \* what the last call wrote to its output arguments
  \* the abstract LRU list the cache is compared with
  ref_list,       \* sequence of [ip, value], most recently promoted first
  ref_out,        \* the outputs the abstract list gives for the last call
  gone,           \* the keys evicted or removed and not added again
  cache_build,    \* the last call of hm_cache_init and what it returned
  \* the static prefix map
  sm_place,       \* the db_place and db_place_size given to hm_sm_compile
  sm_inputs,      \* the prefixes given to hm_sm_compile
  sm_err,         \* what hm_sm_compile returned, "none" before the call
  sm_db_ptr,      \* "db" once hm_sm_compile has written *db_ptr
  sm_db,          \* the database: list_size, max_ips, values
  sm_out,         \* the last hm_sm_find: its ip and the value returned
  sm_buffer,      \* the buffer given to hm_sm_serialize and what it returned
  sm_copy,        \* what hm_sm_deserialize returned and the database it left
  \* the static 64-bit map
  map_place,      \* the db_place and db_place_size given to hm_u64map_compile
  map_in,         \* the keys and values given to hm_u64map_compile
  map_err,        \* what hm_u64map_compile returned, "none" before the call
  map_db_ptr,     \* "db" once hm_u64map_compile has written *db_ptr
  map_db,         \* mask_for_hash, factor1, factor2, hash_table, retries
  map_out,        \* the last hm_u64map_find: its key and the value returned
  map_buffer,     \* the buffer given to hm_u64map_serialize and what it returned
  map_copy,       \* what hm_u64map_deserialize returned and the database it left
  \* the static 64-bit set
  set_place,      \* the db_place and db_place_size given to hm_u64_compile
  set_in,         \* the keys given to hm_u64_compile
  set_err,        \* what hm_u64_compile returned, "none" before the call
  set_db_ptr,     \* "db" once hm_u64_compile has written *db_ptr
  set_db,         \* mask_for_hash, factor1, factor2, hash_table, retries
  set_out,        \* the last hm_u64_find: its key and the result
  set_buffer,     \* the buffer given to hm_u64_serialize and what it returned
  set_copy,       \* what hm_u64_deserialize returned and the database it left
  u64_loop,       \* a compile of the 64-bit map or set taken pass by pass
  \* the static domain set
  dom_place,      \* the db_place and db_place_size given to hm_domain_compile
  dom_in,         \* the domains given to hm_domain_compile
  dom_err,        \* what hm_domain_compile returned, "none" before the call
  dom_db_ptr,     \* "db" once hm_domain_compile has written *db_ptr
  dom_db,         \* the database: records of both tables and the blob
  dom_written,    \* how much of db_place hm_domain_compile has written
  dom_out,        \* the last hm_domain_find: its query and the result
  dom_buffer,     \* the buffer given to hm_domain_serialize and what it returned
  dom_copy        \* what hm_domain_deserialize returned and the database it left

cache_vars == <<list_storage, nodes, free_nodes, hash_table, cache_out,
                ref_list, ref_out, gone, cache_build>>

sm_vars == <<sm_place, sm_inputs, sm_err, sm_db_ptr, sm_db, sm_out, sm_buffer, sm_copy>>

map_vars == <<map_place, map_in, map_err, map_db_ptr, map_db, map_out, map_buffer, map_copy>>

set_vars == <<set_place, set_in, set_err, set_db_ptr, set_db, set_out, set_buffer, set_copy>>

dom_vars == <<dom_place, dom_in, dom_err, dom_db_ptr, dom_db, dom_written, dom_out,
              dom_buffer, dom_copy>>

loop_vars == <<u64_loop>>

vars == <<cache_vars, sm_vars, map_vars, set_vars, dom_vars, loop_vars>>

\* no buffer was serialized into yet, no database was deserialized yet
\* the place of a build before the call
no_place == [db_place |-> 0, db_place_size |-> 0]

\* hm_cache_init has not been called
no_elements == [list_storage |-> <<>>, hash_table |-> <<>>,
                nodes |-> [head_index |-> 0, tail_index |-> 0],
                free_nodes |-> [head_index |-> 0, tail_index |-> 0]]

no_build == [cache_place |-> 0, cache_place_size |-> 0, capacity |-> 0,
             speed |-> 0, err |-> "none", cache_ptr |-> "unset",
             cache |-> no_elements]

no_buffer == [err |-> "none", size |-> 0, units |-> <<>>]
no_copy(db) ==
  [err |-> "none", db_place |-> 0, db_place_size |-> 0, db_ptr |-> "unset",
   db |-> db]

\* what the operations of one structure leave unchanged
not_cache_vars == <<sm_vars, map_vars, set_vars, dom_vars, loop_vars>>
not_sm_vars == <<cache_vars, map_vars, set_vars, dom_vars, loop_vars>>
not_map_vars == <<cache_vars, sm_vars, set_vars, dom_vars, loop_vars>>
not_set_vars == <<cache_vars, sm_vars, map_vars, dom_vars, loop_vars>>
not_dom_vars == <<cache_vars, sm_vars, map_vars, set_vars, loop_vars>>
not_loop_vars == <<cache_vars, sm_vars, map_vars, set_vars, dom_vars>>

(***************************************************************************)
(* Unsigned machine arithmetic.  TLC's integers are 32-bit signed, so a    *)
(* uint32_t or uint64_t is a little-endian sequence of bytes.              *)
(***************************************************************************)
\* a < b of two size_t: a negative number stands for the size_t that a
\* subtraction below zero wraps to (2^64 less its absolute value)
size_less(a, b) == IF (a < 0) = (b < 0) THEN a < b ELSE b < 0

Pow2(n) == 2 ^ n

RECURSIVE BitXor(_, _)
BitXor(a, b) ==
  IF a = 0 THEN b
  ELSE IF b = 0 THEN a
  ELSE ((a + b) % 2) + 2 * BitXor(a \div 2, b \div 2)

\* the bytes of the small natural n, as an unsigned integer of len bytes
RECURSIVE ToBytes(_, _)
ToBytes(n, len) ==
  IF len = 0 THEN <<>> ELSE <<n % 256>> \o ToBytes(n \div 256, len - 1)

ByteAt(x, i) == IF i >= 1 /\ i <= Len(x) THEN x[i] ELSE 0

\* x ^ y
XorBytes(x, y) == [i \in 1..Len(x) |-> BitXor(x[i], y[i])]

\* x >> n
ShrBytes(x, n) ==
  LET q == n \div 8
      r == n % 8
  IN  [i \in 1..Len(x) |->
         (ByteAt(x, i + q) \div Pow2(r))
         + (ByteAt(x, i + q + 1) % Pow2(r)) * Pow2(8 - r)]

RECURSIVE ConvSum(_, _, _, _)
ConvSum(x, y, k, i) ==
  IF i > k THEN 0 ELSE x[i] * y[k + 1 - i] + ConvSum(x, y, k, i + 1)

RECURSIVE MulFrom(_, _, _, _)
MulFrom(x, y, k, carry) ==
  IF k > Len(x) THEN <<>>
  ELSE LET s == carry + ConvSum(x, y, k, 1)
       IN  <<s % 256>> \o MulFrom(x, y, k + 1, s \div 256)

\* x * y, truncated to the width of x
MulBytes(x, y) == MulFrom(x, y, 1, 0)

\* the low 16 bits of x
Low16(x) == ByteAt(x, 1) + 256 * ByteAt(x, 2)


(***************************************************************************)
(*                         LRU cache (cache.c)                             *)
(***************************************************************************)
NO_INDEX == -1

\* log2 of the capacity given to hm_cache_init (a power of two >= 2)
CapacityLog2 == 1
\* the speed given to hm_cache_init (1..5)
Speed == 1

capacity == Pow2(CapacityLog2)

\* the keys and values the callers use; the keys share natural buckets
\* (7, 16, 32 hash to the last cell and 0, 24 to cell 0 of a table of 4, 8
\* or 16 cells), so clusters form and wrap around the end of the table
IPs == {0, 7, 16, 24}
Values == {0, 1}

Elements == 0..(capacity - 1)

get_hash_table_capacity(cap, speed) == cap * Pow2(speed)

Cells == 0..(get_hash_table_capacity(capacity, Speed) - 1)

mask_for_hash == get_hash_table_capacity(capacity, Speed) - 1

\* a probe loop that does not return
Hang == NO_INDEX - 1

\* the record of the four fields of struct hm_cache that change
CacheOf(ls, n, f, ht) ==
  [list_storage |-> ls, nodes |-> n, free_nodes |-> f, hash_table |-> ht]

cut_without_tail(ls, list, index) ==
  LET prev_index == ls[index].prev_index
      next_index == ls[index].next_index
      ls1 == [ls EXCEPT ![index].prev_index = NO_INDEX,
                        ![index].next_index = NO_INDEX]
  IN  IF prev_index # NO_INDEX /\ next_index # NO_INDEX
      THEN [ls |-> [[ls1 EXCEPT ![prev_index].next_index = next_index]
                         EXCEPT ![next_index].prev_index = prev_index],
            list |-> list]
      ELSE IF prev_index # NO_INDEX
      THEN [ls |-> [ls1 EXCEPT ![prev_index].next_index = NO_INDEX],
            list |-> list]
      ELSE IF next_index # NO_INDEX
      THEN [ls |-> [ls1 EXCEPT ![next_index].prev_index = NO_INDEX],
            list |-> [list EXCEPT !.head_index = next_index]]
      ELSE [ls |-> ls1,
            list |-> [head_index |-> NO_INDEX, tail_index |-> NO_INDEX]]

\* cut takes the element out of the list it is in
cut(ls, list, index) ==
  LET prev_index == ls[index].prev_index
      next_index == ls[index].next_index
      ls1 == [ls EXCEPT ![index].prev_index = NO_INDEX,
                        ![index].next_index = NO_INDEX]
  IN  IF prev_index # NO_INDEX /\ next_index # NO_INDEX
      THEN [ls |-> [[ls1 EXCEPT ![prev_index].next_index = next_index]
                         EXCEPT ![next_index].prev_index = prev_index],
            list |-> list]
      ELSE IF prev_index # NO_INDEX
      THEN \* the element is the oldest element
           [ls |-> [ls1 EXCEPT ![prev_index].next_index = NO_INDEX],
            list |-> [list EXCEPT !.tail_index = prev_index]]
      ELSE IF next_index # NO_INDEX
      THEN \* the element is the newest element
           [ls |-> [ls1 EXCEPT ![next_index].prev_index = NO_INDEX],
            list |-> [list EXCEPT !.head_index = next_index]]
      ELSE \* the element is the only element
           [ls |-> ls1,
            list |-> [head_index |-> NO_INDEX, tail_index |-> NO_INDEX]]

\* set_head puts a cut element in front of the list
\* set_head that leaves the prev_index of the former head alone
set_head_without_prev(ls, list, index) ==
  LET ls1 == [ls EXCEPT ![index].next_index = list.head_index,
                        ![index].prev_index = NO_INDEX]
  IN  [ls |-> ls1,
       list |-> [head_index |-> index,
                 tail_index |-> IF list.tail_index = NO_INDEX
                                THEN index ELSE list.tail_index]]

set_head(ls, list, index) ==
  IF list.head_index = NO_INDEX
  THEN [ls |-> ls, list |-> [head_index |-> index, tail_index |-> index]]
  ELSE [ls |-> [[ls EXCEPT ![index].next_index = list.head_index]
                    EXCEPT ![list.head_index].prev_index = index],
        list |-> [list EXCEPT !.head_index = index]]

C21f0aaad == <<173, 170, 240, 33>>
Cd35a2d97 == <<151, 45, 90, 211>>

\* hash32 on the bytes of x
hash32(x) ==
  LET x1 == XorBytes(x, ShrBytes(x, 16))
      x2 == MulBytes(x1, C21f0aaad)
      x3 == XorBytes(x2, ShrBytes(x2, 15))
      x4 == MulBytes(x3, Cd35a2d97)
  IN  XorBytes(x4, ShrBytes(x4, 15))

\* hash32(ip) & mask, for each key: the table has at most 2^16 cells
RECURSIVE hash32_and_mask_of(_)
hash32_and_mask_of(S) ==
  IF S = {} THEN <<>>
  ELSE LET ip == CHOOSE x \in S : TRUE
       IN  (ip :> (Low16(hash32(ToBytes(ip, 4))) % (mask_for_hash + 1)))
             @@ hash32_and_mask_of(S \ {ip})

hash32_and_mask == hash32_and_mask_of(IPs)

start_bucket(ip) == hash32_and_mask[ip]

next_bucket(bucket) == (bucket + 1) % (mask_for_hash + 1)

RECURSIVE lookup_from(_, _, _, _, _)
lookup_from(ht, ls, ip, bucket, n) ==
  IF n > mask_for_hash THEN Hang
  ELSE LET index == ht[bucket]
       IN  IF index = NO_INDEX THEN NO_INDEX
           ELSE IF ls[index].ip = ip THEN index
           ELSE lookup_from(ht, ls, ip, next_bucket(bucket), n + 1)

\* table_lookup that takes the element of the bucket of ip, whatever its ip
table_lookup_without_compare(ht, ls, ip) == ht[start_bucket(ip)]

\* table_lookup: the index of the element of ip, or NO_INDEX
table_lookup(ht, ls, ip) == lookup_from(ht, ls, ip, start_bucket(ip), 0)

\* the loop of table_add returns when it meets an empty cell
has_empty_cell(ht) == \E c \in Cells : ht[c] = NO_INDEX

\* table_add that writes the bucket of ip, empty or not
table_add_to_start_bucket(ht, ip, index) ==
  [ht EXCEPT ![start_bucket(ip)] = index]

RECURSIVE add_from(_, _, _)
add_from(ht, bucket, index) ==
  IF ht[bucket] = NO_INDEX THEN [ht EXCEPT ![bucket] = index]
  ELSE add_from(ht, next_bucket(bucket), index)

\* table_add: the table with index in the first empty cell from the bucket of
\* ip (called with has_empty_cell(ht) only)
table_add(ht, ip, index) == add_from(ht, start_bucket(ip), index)

\* the first loop of table_delete: the cell that holds ip (Hang: the loop
\* met an empty cell, where the code asserts, or went round the table)
RECURSIVE delete_find(_, _, _, _, _)
delete_find(ht, ls, ip, i, n) ==
  IF n > mask_for_hash \/ ht[i] = NO_INDEX THEN Hang
  ELSE IF ls[ht[i]].ip = ip THEN i
  ELSE delete_find(ht, ls, ip, next_bucket(i), n + 1)

\* the second loop of table_delete with the test of the case i <= j only
RECURSIVE delete_repair_without_wrap(_, _, _, _)
delete_repair_without_wrap(ht, ls, i, j0) ==
  LET j == next_bucket(j0)
  IN  IF ht[j] = NO_INDEX THEN ht
      ELSE LET k == start_bucket(ls[ht[j]].ip)
               stays == (i < k) /\ (k <= j)
           IN  IF stays
               THEN delete_repair_without_wrap(ht, ls, i, j)
               ELSE delete_repair_without_wrap(
                      [[ht EXCEPT ![i] = ht[j]] EXCEPT ![j] = NO_INDEX],
                      ls, j, j)

\* the second loop of table_delete: cell i is vacant, j walks the cluster
\* (it ends: cell i is empty, and j comes back to it at the latest)
RECURSIVE delete_repair(_, _, _, _)
delete_repair(ht, ls, i, j0) ==
  LET j == next_bucket(j0)
  IN  IF ht[j] = NO_INDEX THEN ht
      ELSE LET k == start_bucket(ls[ht[j]].ip)
               \* k lies cyclically in (i, j]
               stays == IF i <= j THEN (i < k) /\ (k <= j)
                                  ELSE (k <= j) \/ (i < k)
           IN  IF stays
               THEN delete_repair(ht, ls, i, j)
               ELSE delete_repair([[ht EXCEPT ![i] = ht[j]]
                                       EXCEPT ![j] = NO_INDEX], ls, j, j)

table_delete_no_repair(ht, ls, ip) ==
  LET i == delete_find(ht, ls, ip, start_bucket(ip), 0)
  IN  IF i = Hang THEN ht ELSE [ht EXCEPT ![i] = NO_INDEX]

\* table_delete: the table without ip, the cluster after it repaired
table_delete(ht, ls, ip) ==
  LET i == delete_find(ht, ls, ip, start_bucket(ip), 0)
  IN  IF i = Hang THEN ht
      ELSE delete_repair([ht EXCEPT ![i] = NO_INDEX], ls, i, i)


sizeof_hm_cache_element_t == 4 * 4
sizeof_hm_cache_t == 2 * 4 + 8 + 2 * 8 + 8
cache_alignment == 8

\* hm_valid_capacity without the test (capacity & (capacity - 1)) != 0
hm_valid_capacity_without_power_test(cap, speed) ==
  /\ cap >= 2
  /\ size_less(cap - 1, NO_INDEX)
  /\ get_hash_table_capacity(cap, speed) > cap

\* NO_INDEX <= capacity - 1 and the shift are unsigned; the capacities of
\* the model are below 2^31
hm_valid_capacity(cap, speed) ==
  /\ cap >= 2
  /\ \E n \in 1..30 : cap = Pow2(n)
  /\ size_less(cap - 1, NO_INDEX)
  /\ get_hash_table_capacity(cap, speed) > cap

align8(addr) == (addr - (addr % cache_alignment)) + cache_alignment

hm_cache_place_size(cap, speed) ==
  IF speed < 1 \/ speed > 5
  THEN [err |-> "HM_ERROR_BAD_SIZE", cache_place_size |-> 0]
  ELSE IF ~ hm_valid_capacity(cap, speed)
  THEN [err |-> "HM_ERROR_BAD_SIZE", cache_place_size |-> 0]
  ELSE [err |-> "HM_SUCCESS",
        cache_place_size |->
          sizeof_hm_cache_t + sizeof_hm_cache_element_t * cap
            + get_hash_table_capacity(cap, speed) * 4 + cache_alignment]

\* hm_cache_init that compares the size left with all of the place size
cache_init_needing_whole_size(cache_place, cache_place_size0, cap, speed) ==
  LET cache_place2 == align8(cache_place)
      cache_place_size == cache_place_size0 - (cache_place2 - cache_place)
      needed == hm_cache_place_size(cap, speed)
  IN  IF needed.err # "HM_SUCCESS"
      THEN [err |-> needed.err, cache_ptr |-> "unset"]
      ELSE IF size_less(cache_place_size, needed.cache_place_size)
      THEN [err |-> "HM_ERROR_SMALL_PLACE", cache_ptr |-> "unset"]
      ELSE [err |-> "HM_SUCCESS", cache_ptr |-> "cache"]

\* what hm_cache_init returns, and "cache" when it has written *cache_ptr
\* and the cache behind it; cache_place_size is a size_t
cache_init(cache_place, cache_place_size0, cap, speed) ==
  LET cache_place2 == align8(cache_place)
      cache_place_size == cache_place_size0 - (cache_place2 - cache_place)
      needed == hm_cache_place_size(cap, speed)
  IN  IF needed.err # "HM_SUCCESS"
      THEN [err |-> needed.err, cache_ptr |-> "unset"]
      ELSE IF size_less(cache_place_size,
                        needed.cache_place_size - cache_alignment)
      THEN [err |-> "HM_ERROR_SMALL_PLACE", cache_ptr |-> "unset"]
      ELSE [err |-> "HM_SUCCESS", cache_ptr |-> "cache"]

\* hm_cache_init: the cache after construction; the ip and value fields
\* are not written and hold what the buffer held before (g_ip, g_value)
hm_cache_init(g_ip, g_value) ==
  CacheOf([i \in Elements |->
             [ip |-> g_ip,
              prev_index |-> IF i = 0 THEN NO_INDEX ELSE i - 1,
              next_index |-> IF i = capacity - 1 THEN NO_INDEX ELSE i + 1,
              value |-> g_value]],
          [head_index |-> NO_INDEX, tail_index |-> NO_INDEX],
          [head_index |-> 0, tail_index |-> capacity - 1],
          [c \in Cells |-> NO_INDEX])

\* hm_cache_add that evicts the head of the list, not its tail
cache_add_evicting_head(c, ip, value) ==
  LET index == table_lookup(c.hash_table, c.list_storage, ip)
  IN  IF index # NO_INDEX
      THEN LET ls1 == [c.list_storage EXCEPT ![index].value = value]
               a == cut(ls1, c.nodes, index)
               b == set_head(a.ls, a.list, index)
           IN  [cache |-> CacheOf(b.ls, b.list, c.free_nodes, c.hash_table),
                out |-> [op |-> "add", ip |-> ip,
                         existed |-> TRUE, evicted |-> FALSE]]
      ELSE IF c.free_nodes.head_index = NO_INDEX
      THEN LET idx == c.nodes.head_index
               ip_to_evict == c.list_storage[idx].ip
               value_to_evict == c.list_storage[idx].value
               ht1 == table_delete(c.hash_table, c.list_storage, ip_to_evict)
               ls2 == [c.list_storage EXCEPT ![idx].ip = ip, ![idx].value = value]
           IN  [cache |-> CacheOf(ls2, c.nodes, c.free_nodes,
                                  table_add(ht1, ip, idx)),
                out |-> [op |-> "add", ip |-> ip,
                         existed |-> FALSE, evicted |-> TRUE,
                         evicted_ip |-> ip_to_evict,
                         evicted_value |-> value_to_evict]]
      ELSE LET idx == c.free_nodes.head_index
               a == cut(c.list_storage, c.free_nodes, idx)
               b == set_head(a.ls, c.nodes, idx)
               ls2 == [b.ls EXCEPT ![idx].ip = ip, ![idx].value = value]
           IN  [cache |-> CacheOf(ls2, b.list, a.list,
                                  table_add(c.hash_table, ip, idx)),
                out |-> [op |-> "add", ip |-> ip,
                         existed |-> FALSE, evicted |-> FALSE]]

\* the state hm_cache_add leaves, with "out", what it wrote to its outputs
cache_add(c, ip, value) ==
  LET index == table_lookup(c.hash_table, c.list_storage, ip)
  IN  IF index # NO_INDEX
      THEN \* the IP is already in cache
           LET ls1 == [c.list_storage EXCEPT ![index].value = value]
               a == cut(ls1, c.nodes, index)
               b == set_head(a.ls, a.list, index)
           IN  [cache |-> CacheOf(b.ls, b.list, c.free_nodes, c.hash_table),
                out |-> [op |-> "add", ip |-> ip,
                         existed |-> TRUE, evicted |-> FALSE]]
      ELSE IF c.free_nodes.head_index = NO_INDEX
      THEN \* free list is empty: evict the tail of the list
           LET idx == c.nodes.tail_index
               ip_to_evict == c.list_storage[idx].ip
               value_to_evict == c.list_storage[idx].value
               ht1 == table_delete(c.hash_table, c.list_storage, ip_to_evict)
               a == cut(c.list_storage, c.nodes, idx)
               b == set_head(a.ls, a.list, idx)
               ls2 == [b.ls EXCEPT ![idx].ip = ip, ![idx].value = value]
           IN  [cache |-> CacheOf(ls2, b.list, c.free_nodes,
                                  table_add(ht1, ip, idx)),
                out |-> [op |-> "add", ip |-> ip,
                         existed |-> FALSE, evicted |-> TRUE,
                         evicted_ip |-> ip_to_evict,
                         evicted_value |-> value_to_evict]]
      ELSE \* take the head of the free list
           LET idx == c.free_nodes.head_index
               a == cut(c.list_storage, c.free_nodes, idx)
               b == set_head(a.ls, c.nodes, idx)
               ls2 == [b.ls EXCEPT ![idx].ip = ip, ![idx].value = value]
           IN  [cache |-> CacheOf(ls2, b.list, a.list,
                                  table_add(c.hash_table, ip, idx)),
                out |-> [op |-> "add", ip |-> ip,
                         existed |-> FALSE, evicted |-> FALSE]]

\* the probe loops of hm_cache_add return
cache_add_returns(c, ip) ==
  LET index == table_lookup(c.hash_table, c.list_storage, ip)
  IN  IF index = Hang THEN FALSE
      ELSE IF index # NO_INDEX THEN TRUE
      ELSE IF c.free_nodes.head_index = NO_INDEX
      THEN /\ c.nodes.tail_index # NO_INDEX
           /\ delete_find(c.hash_table, c.list_storage,
                          c.list_storage[c.nodes.tail_index].ip,
                          start_bucket(c.list_storage[c.nodes.tail_index].ip),
                          0) # Hang
      ELSE has_empty_cell(c.hash_table)

\* hm_cache_remove that leaves the key's cell in the hash table
cache_remove_keeping_cell(c, ip) ==
  LET index == table_lookup(c.hash_table, c.list_storage, ip)
  IN  IF index = NO_INDEX
      THEN [cache |-> c,
            out |-> [op |-> "remove", ip |-> ip, existed |-> FALSE]]
      ELSE LET a == cut(c.list_storage, c.nodes, index)
               b == set_head(a.ls, c.free_nodes, index)
           IN  [cache |-> CacheOf(b.ls, a.list, b.list, c.hash_table),
                out |-> [op |-> "remove", ip |-> ip, existed |-> TRUE,
                         existed_value |-> c.list_storage[index].value]]

\* the state hm_cache_remove leaves, and its outputs
cache_remove(c, ip) ==
  LET index == table_lookup(c.hash_table, c.list_storage, ip)
  IN  IF index = NO_INDEX
      THEN [cache |-> c,
            out |-> [op |-> "remove", ip |-> ip, existed |-> FALSE]]
      ELSE LET a == cut(c.list_storage, c.nodes, index)
               b == set_head(a.ls, c.free_nodes, index)
           IN  [cache |-> CacheOf(b.ls, a.list, b.list,
                                  table_delete(c.hash_table, b.ls, ip)),
                out |-> [op |-> "remove", ip |-> ip, existed |-> TRUE,
                         existed_value |-> c.list_storage[index].value]]

cache_remove_returns(c, ip) ==
  LET index == table_lookup(c.hash_table, c.list_storage, ip)
  IN  /\ index # Hang
      /\ index # NO_INDEX =>
           delete_find(c.hash_table, c.list_storage, ip, start_bucket(ip), 0)
             # Hang

\* hm_cache_has that does not promote the element it finds
cache_has_without_promote(c, ip) ==
  LET index == table_lookup(c.hash_table, c.list_storage, ip)
  IN  IF index = NO_INDEX
      THEN [cache |-> c, out |-> [op |-> "has", ip |-> ip, found |-> FALSE]]
      ELSE [cache |-> c,
            out |-> [op |-> "has", ip |-> ip, found |-> TRUE,
                     value |-> c.list_storage[index].value]]

\* the state hm_cache_has leaves, and its outputs
cache_has(c, ip) ==
  LET index == table_lookup(c.hash_table, c.list_storage, ip)
  IN  IF index = NO_INDEX
      THEN [cache |-> c, out |-> [op |-> "has", ip |-> ip, found |-> FALSE]]
      ELSE LET a == cut(c.list_storage, c.nodes, index)
               b == set_head(a.ls, a.list, index)
           IN  [cache |-> CacheOf(b.ls, b.list, c.free_nodes, c.hash_table),
                out |-> [op |-> "has", ip |-> ip, found |-> TRUE,
                         value |-> b.ls[index].value]]

RECURSIVE walk_next(_, _, _)
walk_next(ls, i, n) ==
  IF i = NO_INDEX \/ n = 0 THEN <<>>
  ELSE <<i>> \o walk_next(ls, ls[i].next_index, n - 1)

RECURSIVE walk_prev(_, _, _)
walk_prev(ls, i, n) ==
  IF i = NO_INDEX \/ n = 0 THEN <<>>
  ELSE <<i>> \o walk_prev(ls, ls[i].prev_index, n - 1)

\* the elements of a list from its head by next_index, as hm_cache_dump
\* walks them (at most capacity + 1 of them are followed)
forward(ls, list) == walk_next(ls, list.head_index, capacity + 1)
\* the elements of a list from its tail by prev_index
backward(ls, list) == walk_prev(ls, list.tail_index, capacity + 1)

\* hm_cache_dump: the ips of the list, newest first
hm_cache_dump(ls, list) ==
  LET f == forward(ls, list) IN [k \in 1..Len(f) |-> ls[f[k]].ip]


(***************************************************************************)
(* The abstract LRU list: at most capacity distinct keys, the most         *)
(* recently promoted first.                                                *)
(***************************************************************************)
SeqWithout(l, k) == [i \in 1..(Len(l) - 1) |-> IF i < k THEN l[i] ELSE l[i + 1]]

PositionOf(l, ip) ==
  IF \E k \in 1..Len(l) : l[k].ip = ip
  THEN CHOOSE k \in 1..Len(l) : l[k].ip = ip
  ELSE 0

RefAdd(l, ip, value) ==
  LET k == PositionOf(l, ip)
      new == [ip |-> ip, value |-> value]
  IN  IF k # 0
      THEN [list |-> <<new>> \o SeqWithout(l, k),
            out |-> [op |-> "add", ip |-> ip,
                     existed |-> TRUE, evicted |-> FALSE]]
      ELSE IF Len(l) = capacity
      THEN [list |-> <<new>> \o SeqWithout(l, Len(l)),
            out |-> [op |-> "add", ip |-> ip,
                     existed |-> FALSE, evicted |-> TRUE,
                     evicted_ip |-> l[Len(l)].ip,
                     evicted_value |-> l[Len(l)].value]]
      ELSE [list |-> <<new>> \o l,
            out |-> [op |-> "add", ip |-> ip,
                     existed |-> FALSE, evicted |-> FALSE]]

RefRemove(l, ip) ==
  LET k == PositionOf(l, ip)
  IN  IF k = 0
      THEN [list |-> l, out |-> [op |-> "remove", ip |-> ip, existed |-> FALSE]]
      ELSE [list |-> SeqWithout(l, k),
            out |-> [op |-> "remove", ip |-> ip, existed |-> TRUE,
                     existed_value |-> l[k].value]]

RefHas(l, ip) ==
  LET k == PositionOf(l, ip)
  IN  IF k = 0
      THEN [list |-> l, out |-> [op |-> "has", ip |-> ip, found |-> FALSE]]
      ELSE [list |-> <<l[k]>> \o SeqWithout(l, k),
            out |-> [op |-> "has", ip |-> ip, found |-> TRUE,
                     value |-> l[k].value]]

(***************************************************************************)
(* The cache as a state machine.                                           *)
(***************************************************************************)
Cache == CacheOf(list_storage, nodes, free_nodes, hash_table)

SetCache(c) ==
  /\ list_storage' = c.list_storage
  /\ nodes' = c.nodes
  /\ free_nodes' = c.free_nodes
  /\ hash_table' = c.hash_table

\* hm_cache_init leaves ip and value of the elements as they were in
\* memory: g_ip and g_value
CacheInitWith(g_ip, g_value) ==
  LET c == hm_cache_init(g_ip, g_value)
  IN  /\ list_storage = c.list_storage
      /\ nodes = c.nodes
      /\ free_nodes = c.free_nodes
      /\ hash_table = c.hash_table
      /\ cache_out = [op |-> "init"]
      /\ ref_list = <<>>
      /\ ref_out = [op |-> "init"]
      /\ gone = {}
      /\ cache_build = no_build

\* what hm_cache_init writes behind *cache_ptr for a capacity and a speed
\* that passed its checks, in a buffer that holds g_ip and g_value
cache_init_writes(cap, speed, g_ip, g_value) ==
  [list_storage |->
     [i \in 0..(cap - 1) |->
        [ip |-> g_ip,
         prev_index |-> IF i = 0 THEN NO_INDEX ELSE i - 1,
         next_index |-> IF i = cap - 1 THEN NO_INDEX ELSE i + 1,
         value |-> g_value]],
   hash_table |->
     [c \in 0..(get_hash_table_capacity(cap, speed) - 1) |-> NO_INDEX],
   nodes |-> [head_index |-> NO_INDEX, tail_index |-> NO_INDEX],
   free_nodes |-> [head_index |-> 0, tail_index |-> cap - 1]]

\* a call of hm_cache_init on a buffer that holds g_ip and g_value; the
\* cache of the capacity and speed of the model becomes the cache the
\* operations act on, the cache of the call is kept with the call
hm_cache_init_call(cache_place, cache_place_size, cap, speed, g_ip, g_value) ==
  /\ cache_build.err = "none"
  /\ \E r \in {cache_init(cache_place, cache_place_size, cap, speed)} :
         /\ cache_build' = [cache_place |-> cache_place,
                            cache_place_size |-> cache_place_size,
                            capacity |-> cap, speed |-> speed,
                            err |-> r.err, cache_ptr |-> r.cache_ptr,
                            cache |-> IF r.err = "HM_SUCCESS"
                                      THEN cache_init_writes(cap, speed,
                                                             g_ip, g_value)
                                      ELSE no_elements]
         /\ IF r.err = "HM_SUCCESS" /\ cap = capacity /\ speed = Speed
            THEN SetCache(hm_cache_init(g_ip, g_value))
            ELSE UNCHANGED <<list_storage, nodes, free_nodes, hash_table>>
         /\ UNCHANGED <<cache_out, ref_list, ref_out, gone>>
  /\ UNCHANGED not_cache_vars

CacheInit == \E g_ip \in IPs, g_value \in Values : CacheInitWith(g_ip, g_value)

hm_cache_add(ip, value) ==
  /\ cache_add_returns(Cache, ip)
  /\ \E r \in {cache_add(Cache, ip, value)}, a \in {RefAdd(ref_list, ip, value)} :
         /\ SetCache(r.cache)
         /\ cache_out' = r.out
         /\ ref_list' = a.list
         /\ ref_out' = a.out
         /\ gone' = (gone \ {ip})
                      \cup (IF a.out.evicted THEN {a.out.evicted_ip} ELSE {})
  /\ UNCHANGED cache_build
  /\ UNCHANGED not_cache_vars

hm_cache_remove(ip) ==
  /\ cache_remove_returns(Cache, ip)
  /\ \E r \in {cache_remove(Cache, ip)}, a \in {RefRemove(ref_list, ip)} :
         /\ SetCache(r.cache)
         /\ cache_out' = r.out
         /\ ref_list' = a.list
         /\ ref_out' = a.out
         /\ gone' = IF a.out.existed THEN gone \cup {ip} ELSE gone
  /\ UNCHANGED cache_build
  /\ UNCHANGED not_cache_vars

hm_cache_has(ip) ==
  /\ table_lookup(hash_table, list_storage, ip) # Hang
  /\ \E r \in {cache_has(Cache, ip)}, a \in {RefHas(ref_list, ip)} :
         /\ SetCache(r.cache)
         /\ cache_out' = r.out
         /\ ref_list' = a.list
         /\ ref_out' = a.out
         /\ gone' = gone
  /\ UNCHANGED cache_build
  /\ UNCHANGED not_cache_vars

CacheNext ==
  \/ \E ip \in IPs, value \in Values : hm_cache_add(ip, value)
  \/ \E ip \in IPs : hm_cache_remove(ip)
  \/ \E ip \in IPs : hm_cache_has(ip)



(***************************************************************************)
(* The static prefix map (static_map.cpp).  A uint32_t is a pair           *)
(* <<high 16 bits, low 16 bits>>; an int32_t is kept as the uint32_t of    *)
(* the same bits and compared as signed.  HM_NO_VALUE, the largest          *)
(* uint64_t, is -1; the values of the prefixes are small naturals.          *)
(***************************************************************************)
HM_NO_VALUE == -1
MaxPrefixes == 2

IP(a, b, c, d) == <<a * 256 + b, c * 256 + d>>

u32_less(a, b) == a[1] < b[1] \/ (a[1] = b[1] /\ a[2] < b[2])

\* x ^ ip_xor: toggles bit 31
xor_ip_xor(x) == <<(x[1] + Pow2(15)) % Pow2(16), x[2]>>

\* x - 1 in uint32_t
u32_dec(x) ==
  IF x[2] > 0 THEN <<x[1], x[2] - 1>>
  ELSE <<(x[1] + Pow2(16) - 1) % Pow2(16), Pow2(16) - 1>>

\* a < b for the int32_t of these bits
int32_less(a, b) == u32_less(xor_ip_xor(a), xor_ip_xor(b))

\* ip >> zero_bits, zero_bits in 0..31
u32_shr(ip, zero_bits) ==
  IF zero_bits >= 16
  THEN <<0, ip[1] \div Pow2(zero_bits - 16)>>
  ELSE <<ip[1] \div Pow2(zero_bits),
         (ip[1] % Pow2(zero_bits)) * Pow2(16 - zero_bits)
           + ip[2] \div Pow2(zero_bits)>>

\* x << zero_bits in uint32_t, zero_bits in 0..31
u32_shl(x, zero_bits) ==
  IF zero_bits >= 16
  THEN <<(x[2] % Pow2(32 - zero_bits)) * Pow2(zero_bits - 16), 0>>
  ELSE <<(x[1] % Pow2(16 - zero_bits)) * Pow2(zero_bits)
           + x[2] \div Pow2(16 - zero_bits),
         (x[2] % Pow2(16 - zero_bits)) * Pow2(zero_bits)>>

\* x + 1 in uint32_t
u32_inc(x) ==
  IF x[2] < Pow2(16) - 1 THEN <<x[1], x[2] + 1>>
  ELSE <<(x[1] + 1) % Pow2(16), 0>>

hm_end_ip_of_zone(ip, cidr_prefix) ==
  LET zero_bits == 32 - cidr_prefix
  IN  u32_shl(u32_inc(u32_shr(ip, zero_bits)), zero_bits)

\* ips[i] & ((1 << (32 - cidr_prefixes[i])) - 1), for a cidr in 1..32
host_bits(ip, cidr_prefix) ==
  LET zero_bits == 32 - cidr_prefix
  IN  u32_shl(u32_shr(ip, zero_bits), zero_bits) # ip

sizeof_hm_sm_database_t == 4 * 8
hm_hashtable_size_bytes == 256 * 256 * 4
sm_alignment == 8

hm_aligned_size(list_size) == list_size + (list_size % 2)

sm_align8(addr) == (addr - (addr % sm_alignment)) + sm_alignment

list_size_to_db_place_size(list_size) ==
  sizeof_hm_sm_database_t + hm_hashtable_size_bytes
    + hm_aligned_size(list_size) * 4 + list_size * 8

hm_sm_db_place_size(elements) ==
  list_size_to_db_place_size(elements * 2 + 2) + sm_alignment

\* the comparison of std::sort in hm_sm_compile
input_less(a, b) ==
  IF a.ip = b.ip THEN a.cidr_prefix < b.cidr_prefix ELSE u32_less(a.ip, b.ip)

RECURSIVE sort_insert(_, _)
sort_insert(sorted, x) ==
  IF sorted = <<>> THEN <<x>>
  ELSE IF input_less(x, Head(sorted)) THEN <<x>> \o sorted
  ELSE <<Head(sorted)>> \o sort_insert(Tail(sorted), x)

\* the inputs left in the order they were given in
sort_inputs_as_given(inputs) == inputs

RECURSIVE sort_inputs(_)
sort_inputs(inputs) ==
  IF inputs = <<>> THEN <<>>
  ELSE sort_insert(sort_inputs(Tail(inputs)), Head(inputs))

pushToSorted(sorted, ip, value) ==
  IF sorted # <<>> /\ sorted[Len(sorted)].ip = ip
  THEN [sorted EXCEPT ![Len(sorted)].value = value]
  ELSE Append(sorted, [ip |-> ip, value |-> value])

pop_back(stack) == SubSeq(stack, 1, Len(stack) - 1)

\* pops one zone end and reopens the zone below it
close_zone(st) ==
  LET end_ip == st.ends_stack[Len(st.ends_stack)].ip
      rest == pop_back(st.ends_stack)
      reopened_value == IF rest # <<>> THEN rest[Len(rest)].value ELSE HM_NO_VALUE
  IN  [st EXCEPT !.sorted = pushToSorted(st.sorted, end_ip, reopened_value),
                 !.ends_stack = rest]

\* while (!ends_stack.empty() && ends_stack.back().ip < input.ip)
RECURSIVE close_zones_before(_, _)
close_zones_before(st, ip) ==
  IF st.ends_stack # <<>> /\ u32_less(st.ends_stack[Len(st.ends_stack)].ip, ip)
  THEN close_zones_before(close_zone(st), ip)
  ELSE st

\* while (!ends_stack.empty())
RECURSIVE close_all_zones(_)
close_all_zones(st) ==
  IF st.ends_stack # <<>> THEN close_all_zones(close_zone(st)) ELSE st

\* one iteration of the loop over the sorted inputs
sweep_input(st0, input) ==
  LET st1 == close_zones_before(st0, input.ip)
      stack1 == IF st1.ends_stack # <<>>
                   /\ st1.ends_stack[Len(st1.ends_stack)].ip = input.ip
                THEN pop_back(st1.ends_stack)
                ELSE st1.ends_stack
      sorted2 == pushToSorted(st1.sorted, input.ip, input.value)
      end_ip == hm_end_ip_of_zone(input.ip, input.cidr_prefix)
      n == Len(stack1)
  IN  IF stack1 # <<>> /\ stack1[n].ip = end_ip
      THEN [sorted |-> sorted2,
            ends_stack |-> [stack1 EXCEPT ![n].value = input.value],
            asserts |-> st1.asserts]
      ELSE [sorted |-> sorted2,
            ends_stack |-> Append(stack1, [ip |-> end_ip, value |-> input.value]),
            asserts |-> st1.asserts
                          /\ (stack1 # <<>> => u32_less(end_ip, stack1[n].ip))]

RECURSIVE sweep(_, _)
sweep(st, inputs) ==
  IF inputs = <<>> THEN st
  ELSE sweep(sweep_input(st, Head(inputs)), Tail(inputs))

\* the list "sorted" at the end of hm_sm_compile, before the shift by ip_xor
sorted_of(inputs) ==
  LET st0 == [sorted |-> pushToSorted(<<>>, IP(0, 0, 0, 0), HM_NO_VALUE),
              ends_stack |-> <<>>, asserts |-> TRUE]
      st1 == close_all_zones(sweep(st0, sort_inputs(inputs)))
  IN  [st1 EXCEPT !.sorted = pushToSorted(st1.sorted, IP(0, 0, 0, 0), HM_NO_VALUE)]

\* std::lower_bound: the index (from 0) of the first element not less than val
RECURSIVE lower_bound(_, _, _, _)
lower_bound(max_ips, first, len, val) ==
  IF len <= 0 THEN first
  ELSE LET half == len \div 2
           middle == first + half
       IN  IF int32_less(max_ips[middle + 1], val)
           THEN lower_bound(max_ips, middle + 1, len - half - 1, val)
           ELSE lower_bound(max_ips, first, half, val)

\* a jump table of zeros: every search starts at the head of the list
fill_hashtable_with_zeros(max_ips, hash) == 0

\* db->hashtable[hash] as fill_hashtable computes it
fill_hashtable(max_ips, hash) ==
  lower_bound(max_ips, 0, Len(max_ips), xor_ip_xor(<<hash, 0>>))

\* the first error of the loop that validates the inputs, if any
RECURSIVE validate_inputs(_)
validate_inputs(inputs) ==
  IF inputs = <<>> THEN "HM_SUCCESS"
  ELSE LET e == Head(inputs)
       IN  IF e.value = HM_NO_VALUE THEN "HM_ERROR_BAD_VALUE"
           \* a cidr outside 1..32 makes the shift undefined; whatever it
           \* gives, the check of the cidr that follows rejects the entry
           ELSE IF e.cidr_prefix \notin 1..32 THEN "HM_ERROR_BAD_RANGE"
           ELSE IF host_bits(e.ip, e.cidr_prefix) THEN "HM_ERROR_BAD_RANGE"
           ELSE validate_inputs(Tail(inputs))

no_db == [list_size |-> 0, max_ips |-> <<>>, values |-> <<>>]

\* what hm_sm_compile returns and leaves in *db_ptr and the database;
\* "asserts" tells whether the assert on ends_stack held
sm_compile(db_place, db_place_size0, inputs) ==
  LET db_place_size == db_place_size0 - (sm_align8(db_place) - db_place)
      checked == validate_inputs(inputs)
      st == sorted_of(inputs)
      shifted == [i \in 1..Len(st.sorted) |-> xor_ip_xor(st.sorted[i].ip)]
      list_size == Len(st.sorted) - 1
  IN  IF inputs = <<>>
      THEN [err |-> "HM_ERROR_NO_MASKS", db_ptr |-> "unset", db |-> no_db,
            asserts |-> TRUE]
      ELSE IF size_less(db_place_size, sizeof_hm_sm_database_t)
      THEN [err |-> "HM_ERROR_SMALL_PLACE", db_ptr |-> "unset", db |-> no_db,
            asserts |-> TRUE]
      ELSE IF checked # "HM_SUCCESS"
      THEN [err |-> checked, db_ptr |-> "unset", db |-> no_db,
            asserts |-> TRUE]
      ELSE IF size_less(db_place_size, list_size_to_db_place_size(list_size))
      THEN [err |-> "HM_ERROR_SMALL_PLACE", db_ptr |-> "db",
            db |-> [no_db EXCEPT !.list_size = list_size],
            asserts |-> st.asserts]
      ELSE [err |-> "HM_SUCCESS", db_ptr |-> "db", asserts |-> st.asserts,
            db |-> [list_size |-> list_size,
                    max_ips |-> [i \in 1..list_size |-> u32_dec(shifted[i + 1])],
                    values |-> [i \in 1..list_size |-> st.sorted[i].value]]]

\* while (*it < ip) it++, from the index "it"
RECURSIVE scan(_, _, _)
scan(max_ips, it, ip) ==
  IF it >= Len(max_ips) THEN it
  ELSE IF int32_less(max_ips[it + 1], ip) THEN scan(max_ips, it + 1, ip)
  ELSE it

sm_find(db, ip0) ==
  LET begin == fill_hashtable(db.max_ips, ip0[1])
      index == scan(db.max_ips, begin, xor_ip_xor(ip0))
  IN  db.values[index + 1]

\* A buffer of serialized data is the sequence of its 4-byte units.  A
\* uint64_t takes two units, the low half first; the values of the model are
\* small, so the high half is 0, or all ones for HM_NO_VALUE.
u64_units(v) == <<v, IF v < 0 THEN -1 ELSE 0>>

\* the uint64_t at the units i, i + 1 (counted from 1); Huge when its high
\* half is not one the model writes
Huge == 16777216

read_u64(units, i) ==
  IF units[i + 1] = 0 /\ units[i] \in Nat THEN units[i]
  ELSE IF units[i + 1] = -1 /\ units[i] = -1 THEN -1
  ELSE Huge

RECURSIVE values_units(_, _)
values_units(values, n) ==
  IF n = 0 THEN <<>> ELSE values_units(values, n - 1) \o u64_units(values[n])

list_size_to_serialized_size(list_size) == 8 + list_size * (4 + 8)

hm_sm_serialized_size(db) == list_size_to_serialized_size(db.list_size)

\* what hm_sm_serialize returns and leaves in the buffer
sm_serialize(buffer, buffer_size, db) ==
  IF buffer_size < hm_sm_serialized_size(db)
  THEN [err |-> "HM_ERROR_SMALL_PLACE", size |-> buffer_size, units |-> buffer]
  ELSE [err |-> "HM_SUCCESS", size |-> buffer_size,
        units |-> u64_units(db.list_size) \o db.max_ips
                    \o values_units(db.values, db.list_size)
                    \o SubSeq(buffer, (hm_sm_serialized_size(db) \div 4) + 1,
                              Len(buffer))]

\* what hm_sm_db_place_size_from_serialized returns and leaves in *db_place_size
sm_db_place_size_from_serialized(buffer, buffer_size) ==
  IF buffer_size < 8
  THEN [err |-> "HM_ERROR_SMALL_PLACE", db_place_size |-> 0]
  ELSE IF buffer_size < list_size_to_serialized_size(read_u64(buffer, 1))
  THEN [err |-> "HM_ERROR_SMALL_PLACE", db_place_size |-> 0]
  ELSE IF read_u64(buffer, 1) = 0
  THEN [err |-> "HM_ERROR_NO_MASKS", db_place_size |-> 0]
  ELSE [err |-> "HM_SUCCESS",
        db_place_size |-> list_size_to_db_place_size(read_u64(buffer, 1))
                            + sm_alignment]

\* what hm_sm_deserialize returns and leaves in *db_ptr and the database
sm_deserialize(db_place, db_place_size0, buffer, buffer_size) ==
  LET list_size == read_u64(buffer, 1)
      db_place_size == db_place_size0 - (sm_align8(db_place) - db_place)
      values_at == 2 + list_size
  IN  IF buffer_size < 8
      THEN [err |-> "HM_ERROR_SMALL_PLACE", db_ptr |-> "unset", db |-> no_db]
      ELSE IF buffer_size < list_size_to_serialized_size(list_size)
      THEN [err |-> "HM_ERROR_SMALL_PLACE", db_ptr |-> "unset", db |-> no_db]
      ELSE IF list_size = 0
      THEN [err |-> "HM_ERROR_NO_MASKS", db_ptr |-> "unset", db |-> no_db]
      ELSE IF size_less(db_place_size, list_size_to_db_place_size(list_size))
      THEN [err |-> "HM_ERROR_SMALL_PLACE", db_ptr |-> "unset", db |-> no_db]
      ELSE [err |-> "HM_SUCCESS", db_ptr |-> "db",
            db |-> [list_size |-> list_size,
                    max_ips |-> SubSeq(buffer, 3, 2 + list_size),
                    values |-> [i \in 1..list_size |->
                                  read_u64(buffer, values_at + 2 * i - 1)]]]

Prefixes ==
  { [ip |-> IP(0, 0, 0, 0), cidr_prefix |-> 1],
    [ip |-> IP(128, 0, 0, 0), cidr_prefix |-> 1],
    [ip |-> IP(128, 0, 0, 0), cidr_prefix |-> 2],
    [ip |-> IP(192, 0, 0, 0), cidr_prefix |-> 2],
    [ip |-> IP(255, 255, 0, 0), cidr_prefix |-> 16],
    [ip |-> IP(255, 255, 255, 255), cidr_prefix |-> 32],
    [ip |-> IP(128, 0, 0, 1), cidr_prefix |-> 1],
    [ip |-> IP(10, 0, 0, 0), cidr_prefix |-> 0] }

SmValues == {1, 2, HM_NO_VALUE}

SmInputs ==
  { [ip |-> p.ip, cidr_prefix |-> p.cidr_prefix, value |-> v] :
      p \in Prefixes, v \in SmValues }

SmInputLists == UNION { [1..n -> SmInputs] : n \in 0..MaxPrefixes }

\* addresses of db_place, and sizes that leave room after the alignment
SmPlaces == {0, 4}
SmPlaceSizes ==
  {sm_alignment, sm_alignment + sizeof_hm_sm_database_t,
   hm_sm_db_place_size(MaxPrefixes)}

QueryIPs ==
  { IP(0, 0, 0, 0), IP(127, 255, 255, 255), IP(128, 0, 0, 0), IP(160, 0, 0, 0),
    IP(192, 0, 0, 0), IP(208, 0, 0, 0), IP(255, 255, 0, 0),
    IP(255, 255, 255, 255) }

SmInit ==
  /\ sm_place = no_place
  /\ sm_inputs = <<>>
  /\ sm_err = "none"
  /\ sm_db_ptr = "unset"
  /\ sm_db = no_db
  /\ sm_out = [ip |-> IP(0, 0, 0, 0), value |-> HM_NO_VALUE, called |-> FALSE]
  /\ sm_buffer = no_buffer
  /\ sm_copy = no_copy(no_db)

hm_sm_compile(db_place, db_place_size, inputs) ==
  /\ sm_err = "none"
  /\ \E r \in {sm_compile(db_place, db_place_size, inputs)} :
         /\ r.asserts
         /\ sm_place' = [db_place |-> db_place, db_place_size |-> db_place_size]
         /\ sm_inputs' = inputs
         /\ sm_err' = r.err
         /\ sm_db_ptr' = r.db_ptr
         /\ sm_db' = r.db
         /\ UNCHANGED <<sm_out, sm_buffer, sm_copy>>
  /\ UNCHANGED not_sm_vars

hm_sm_find(ip0) ==
  /\ sm_err = "HM_SUCCESS"
  /\ sm_out' = [ip |-> ip0, value |-> sm_find(sm_db, ip0), called |-> TRUE]
  /\ UNCHANGED <<sm_place, sm_inputs, sm_err, sm_db_ptr, sm_db, sm_buffer, sm_copy>>
  /\ UNCHANGED not_sm_vars

\* the caller's buffer of buffer_size bytes holds "junk" before the call
hm_sm_serialize(buffer_size, junk) ==
  /\ sm_err = "HM_SUCCESS"
  /\ sm_buffer.err = "none"
  /\ sm_buffer' = sm_serialize([i \in 1..(buffer_size \div 4) |-> junk],
                               buffer_size, sm_db)
  /\ UNCHANGED <<sm_place, sm_inputs, sm_err, sm_db_ptr, sm_db, sm_out, sm_copy>>
  /\ UNCHANGED not_sm_vars

hm_sm_deserialize(db_place, db_place_size) ==
  /\ sm_buffer.err = "HM_SUCCESS"
  /\ sm_copy.err = "none"
  /\ sm_copy' = [db_place |-> db_place, db_place_size |-> db_place_size]
                  @@ sm_deserialize(db_place, db_place_size, sm_buffer.units,
                                    sm_buffer.size)
  /\ UNCHANGED <<sm_place, sm_inputs, sm_err, sm_db_ptr, sm_db, sm_out, sm_buffer>>
  /\ UNCHANGED not_sm_vars

SmNext ==
  \/ \E db_place \in SmPlaces, db_place_size \in SmPlaceSizes,
        inputs \in SmInputLists :
       hm_sm_compile(db_place, db_place_size, inputs)
  \/ \E ip0 \in QueryIPs : hm_sm_find(ip0)

(***************************************************************************)
(* The static 64-bit map and set (static_uint64_map.c, static_uint64_set.c). *)
(* Keys, as they are hashed, and the factors of the hash are uint64_t: 8   *)
(* bytes, the lowest first.  Keys and values are stored as the small       *)
(* naturals they are.                                                      *)
(***************************************************************************)
MaxKeys == 6
MaxRetries == 3
MaxFiller == 8

items_in_bucket == 4
u64_alignment == 64
u64set_alignment == 32

initial_factor1 == <<137, 78, 161, 87, 102, 9, 195, 166>>   \* 0xA6C3096657A14E89
initial_factor2 == <<46, 217, 5, 157, 86, 99, 249, 36>>     \* 0x24F963569D05D92E

hm_u64map_hash64(factor1, factor2, key) ==
  CHOOSE h \in
    { XorBytes(k4, ShrBytes(k4, 33)) :
      k4 \in { MulBytes(k3, factor2) :
      k3 \in { XorBytes(k2, ShrBytes(k2, 33)) :
      k2 \in { MulBytes(k1, factor1) :
      k1 \in { XorBytes(key, ShrBytes(key, 33)) } } } } } : TRUE

hm_u64_hash64(factor1, factor2, key) ==
  CHOOSE h \in
    { XorBytes(k4, ShrBytes(k4, 33)) :
      k4 \in { MulBytes(k3, factor2) :
      k3 \in { XorBytes(k2, ShrBytes(k2, 33)) :
      k2 \in { MulBytes(k1, factor1) :
      k1 \in { XorBytes(key, ShrBytes(key, 33)) } } } } } : TRUE

RECURSIVE round_up_from(_, _)
round_up_from(power, n) == IF power < n THEN round_up_from(power * 2, n) ELSE power

round_up_to_power_of_2(n) == round_up_from(1, n)

hash_table_buckets(elements) ==
  LET result == round_up_to_power_of_2(elements) * 4 * 2
  IN  IF result < 16 THEN 16 ELSE result

\* h & mask_for_hash, where mask_for_hash + 4 is a power of two
and_mask(h, mask) == LET low == Low16(h) % (mask + 4) IN low - (low % 4)

sizeof_u64_database_t == 4 * 8

u64_align64(addr) == (addr - (addr % u64_alignment)) + u64_alignment

u64set_align64(addr) == (addr - (addr % u64set_alignment)) + u64set_alignment

hm_u64map_db_place_size(elements) ==
  sizeof_u64_database_t + hash_table_buckets(elements) * 16 + u64_alignment

hm_u64_db_place_size(elements) ==
  sizeof_u64_database_t + hash_table_buckets(elements) * 8 + u64set_alignment

no_key_value == [key |-> 0, value |-> 0]

\* clear_hash_table: cells 1..buckets stand for hash_table[0..buckets - 1]
clear_hash_table(mask) == [c \in 1..(mask + 4) |-> no_key_value]

\* the cells b..b+3 of a key, and the first of them that is empty (0: none)
quartet(b) == {b + 1 + shift : shift \in 0..(items_in_bucket - 1)}

first_empty(table, b) ==
  IF \E c \in quartet(b) : table[c].key = 0
  THEN CHOOSE c \in quartet(b) :
         /\ table[c].key = 0
         /\ \A c2 \in quartet(b) : table[c2].key = 0 => c <= c2
  ELSE 0

\* the loop that puts the keys from the i-th on into the cleared table, for
\* the map (values given) and for the set (every value 0)
\* put_keys without the test of uniqueness
RECURSIVE put_keys_without_unique_test(_, _, _, _, _, _, _)
put_keys_without_unique_test(table, hash_of, mask, keys, values, i, is_map) ==
  IF i > Len(keys) THEN [result |-> "done", table |-> table]
  ELSE LET key == keys[i]
           b == and_mask(hash_of[key], mask)
           c == first_empty(table, b)
       IN  IF c = 0
           THEN [result |-> "collision", table |-> table]
           ELSE put_keys_without_unique_test(
                  [table EXCEPT ![c] = [key |-> key,
                                        value |-> IF is_map THEN values[i]
                                                  ELSE 0]],
                  hash_of, mask, keys, values, i + 1, is_map)

RECURSIVE put_keys(_, _, _, _, _, _, _)
put_keys(table, hash_of, mask, keys, values, i, is_map) ==
  IF i > Len(keys) THEN [result |-> "done", table |-> table]
  ELSE LET key == keys[i]
           b == and_mask(hash_of[key], mask)
           c == first_empty(table, b)
       IN  IF \E c2 \in quartet(b) : table[c2].key = key
           THEN [result |-> "not unique", table |-> table]
           ELSE IF c = 0
           THEN [result |-> "collision", table |-> table]
           ELSE put_keys([table EXCEPT ![c] = [key |-> key,
                                               value |-> IF is_map THEN values[i]
                                                         ELSE 0]],
                         hash_of, mask, keys, values, i + 1, is_map)

\* the hashes of a set of keys under the factors
RECURSIVE hashes_of(_, _, _)
hashes_of(factor1, factor2, S) ==
  IF S = {} THEN <<>>
  ELSE LET k == CHOOSE x \in S : TRUE
       IN  (k :> hm_u64map_hash64(factor1, factor2, ToBytes(k, 8)))
             @@ hashes_of(factor1, factor2, S \ {k})

\* the calibration loop: "retries" counts the changes of the factors; when
\* MaxRetries changes did not help the loop is still running
RECURSIVE calibrate(_, _, _, _, _, _, _)
calibrate(keys, values, mask, factor1, factor2, retries, is_map) ==
  LET hash_of == hashes_of(factor1, factor2, {keys[i] : i \in 1..Len(keys)})
      r == put_keys(clear_hash_table(mask), hash_of, mask, keys, values, 1, is_map)
      new_factor1 == hm_u64map_hash64(factor1, factor2, ToBytes(keys[1], 8))
      new_factor2 == hm_u64map_hash64(new_factor1, factor2, ToBytes(keys[1], 8))
  IN  IF r.result # "collision"
      THEN [result |-> r.result, hash_table |-> r.table, factor1 |-> factor1,
            factor2 |-> factor2, retries |-> retries]
      ELSE IF retries = MaxRetries
      THEN [result |-> "running", hash_table |-> r.table, factor1 |-> factor1,
            factor2 |-> factor2, retries |-> retries]
      ELSE calibrate(keys, values, mask, new_factor1, new_factor2, retries + 1,
                     is_map)

\* the key the loop "hash_table[b0].key++" stops at, counting from key; 0
\* when it is still running at MaxFiller
RECURSIVE filler_key(_, _, _, _, _)
filler_key(factor1, factor2, mask, b0, key) ==
  LET key1 == key + 1
      b1 == and_mask(hm_u64map_hash64(factor1, factor2, ToBytes(key1, 8)), mask)
  IN  IF b1 # b0 - (b0 % 4) THEN key1
      ELSE IF key1 >= MaxFiller THEN 0
      ELSE filler_key(factor1, factor2, mask, b0, key1)

\* the zero-quartet loop left out
keep_zero_quartet(table, factor1, factor2, mask) == table

\* the loop over the quartet of hash(0): every empty cell gets the filler key,
\* its value stays 0
fill_zero_quartet(table, factor1, factor2, mask) ==
  LET b == and_mask(hm_u64map_hash64(factor1, factor2, ToBytes(0, 8)), mask)
  IN  [c \in 1..Len(table) |->
         IF c \in quartet(b) /\ table[c].key = 0
         THEN [table[c] EXCEPT
                 !.key = filler_key(factor1, factor2, mask, c - 1, 0)]
         ELSE table[c]]

\* the loops "hash_table[b0].key++" end within MaxFiller
fillers_found(table, factor1, factor2, mask) ==
  LET b == and_mask(hm_u64map_hash64(factor1, factor2, ToBytes(0, 8)), mask)
  IN  \A c \in quartet(b) :
        table[c].key = 0 => filler_key(factor1, factor2, mask, c - 1, 0) # 0

\* qsort of one quartet by comp_key_value: the number of cells of the quartet
\* that go before cell c
rank_in_quartet(table, c) ==
  LET b == (c - 1) - ((c - 1) % items_in_bucket)
  IN  Cardinality({c2 \in quartet(b) :
                     \/ table[c2].key < table[c].key
                     \/ (table[c2].key = table[c].key /\ c2 < c)})

\* the quartets sorted with the keys only: the values stay in their cells
sort_keys_only(table) ==
  [c \in 1..Len(table) |->
     LET b == (c - 1) - ((c - 1) % items_in_bucket)
         from == CHOOSE c2 \in quartet(b) :
                   rank_in_quartet(table, c2) = (c - 1) % items_in_bucket
     IN  [key |-> table[from].key, value |-> table[c].value]]

\* the loop of qsort over the quartets
sort_quartets(table) ==
  [c \in 1..Len(table) |->
     LET b == (c - 1) - ((c - 1) % items_in_bucket)
     IN  table[CHOOSE c2 \in quartet(b) :
                 rank_in_quartet(table, c2) = (c - 1) % items_in_bucket]]

no_u64_db ==
  [mask_for_hash |-> 0, factor1 |-> initial_factor1, factor2 |-> initial_factor2,
   hash_table |-> <<>>, retries |-> 0]

\* hm_u64map_compile from the end of the calibration loop "cal" on; "running"
\* when one of the loops has not ended within the bounds
u64map_after_calibration(cal, mask) ==
  LET db == [mask_for_hash |-> mask, factor1 |-> cal.factor1,
             factor2 |-> cal.factor2, hash_table |-> cal.hash_table,
             retries |-> cal.retries]
  IN  IF cal.result = "not unique"
      THEN [err |-> "HM_ERROR_BAD_VALUE", db_ptr |-> "db", db |-> db]
      ELSE IF cal.result = "running"
      THEN [err |-> "running", db_ptr |-> "db", db |-> db]
      ELSE IF ~fillers_found(cal.hash_table, cal.factor1, cal.factor2, mask)
      THEN [err |-> "running", db_ptr |-> "db", db |-> db]
      ELSE CHOOSE r \in
             { [err |-> "HM_SUCCESS", db_ptr |-> "db",
                db |-> [db EXCEPT !.hash_table = sort_quartets(filled)]] :
               filled \in {fill_zero_quartet(cal.hash_table, cal.factor1,
                                             cal.factor2, mask)} } : TRUE

\* what hm_u64map_compile returns and leaves
u64map_compile(db_place, db_place_size0, keys, values) ==
  LET elements == Len(keys)
      db_place_size == db_place_size0 - (u64_align64(db_place) - db_place)
      mask == hash_table_buckets(elements) - 1 - 3
  IN  IF elements = 0
      THEN [err |-> "HM_ERROR_NO_MASKS", db_ptr |-> "unset", db |-> no_u64_db]
      ELSE IF \E i \in 1..elements : keys[i] = 0 \/ values[i] = 0
      THEN [err |-> "HM_ERROR_BAD_VALUE", db_ptr |-> "unset", db |-> no_u64_db]
      ELSE IF size_less(db_place_size,
                        hm_u64map_db_place_size(elements) - u64_alignment)
      THEN [err |-> "HM_ERROR_SMALL_PLACE", db_ptr |-> "unset", db |-> no_u64_db]
      ELSE CHOOSE r \in
             { u64map_after_calibration(cal, mask) :
               cal \in {calibrate(keys, values, mask, initial_factor1,
                                  initial_factor2, 0, TRUE)} } : TRUE

u64map_find(db, key) ==
  LET h == hm_u64map_hash64(db.factor1, db.factor2, ToBytes(key, 8))
      b == and_mask(h, db.mask_for_hash)
      t == db.hash_table
  IN  IF t[b + 1].key = key THEN t[b + 1].value
      ELSE IF t[b + 2].key = key THEN t[b + 2].value
      ELSE IF t[b + 3].key = key THEN t[b + 3].value
      ELSE IF t[b + 4].key = key THEN t[b + 4].value
      ELSE 0

\* hm_u64_compile from the end of the calibration loop "cal" on: the cells
\* hold keys only (every value of the model's cells is 0) and are not sorted
u64_after_calibration(cal, mask) ==
  LET db == [mask_for_hash |-> mask, factor1 |-> cal.factor1,
             factor2 |-> cal.factor2, hash_table |-> cal.hash_table,
             retries |-> cal.retries]
  IN  IF cal.result = "not unique"
      THEN [err |-> "HM_ERROR_BAD_VALUE", db_ptr |-> "db", db |-> db]
      ELSE IF cal.result = "running"
      THEN [err |-> "running", db_ptr |-> "db", db |-> db]
      ELSE IF ~fillers_found(cal.hash_table, cal.factor1, cal.factor2, mask)
      THEN [err |-> "running", db_ptr |-> "db", db |-> db]
      ELSE [err |-> "HM_SUCCESS", db_ptr |-> "db",
            db |-> [db EXCEPT !.hash_table =
                      fill_zero_quartet(cal.hash_table, cal.factor1,
                                        cal.factor2, mask)]]

\* what hm_u64_compile returns and leaves
u64_compile(db_place, db_place_size0, keys) ==
  LET elements == Len(keys)
      db_place_size == db_place_size0 - (u64set_align64(db_place) - db_place)
      mask == hash_table_buckets(elements) - 1 - 3
  IN  IF elements = 0
      THEN [err |-> "HM_ERROR_NO_MASKS", db_ptr |-> "unset", db |-> no_u64_db]
      ELSE IF \E i \in 1..elements : keys[i] = 0
      THEN [err |-> "HM_ERROR_BAD_VALUE", db_ptr |-> "unset", db |-> no_u64_db]
      ELSE IF size_less(db_place_size,
                        hm_u64_db_place_size(elements) - u64set_alignment)
      THEN [err |-> "HM_ERROR_SMALL_PLACE", db_ptr |-> "unset", db |-> no_u64_db]
      ELSE CHOOSE r \in
             { u64_after_calibration(cal, mask) :
               cal \in {calibrate(keys, <<>>, mask, initial_factor1,
                                  initial_factor2, 0, FALSE)} } : TRUE

u64_find(db, key) ==
  LET h == hm_u64_hash64(db.factor1, db.factor2, ToBytes(key, 8))
      b == and_mask(h, db.mask_for_hash)
      t == db.hash_table
  IN  t[b + 1].key = key \/ t[b + 2].key = key
        \/ t[b + 3].key = key \/ t[b + 4].key = key

\* A buffer of a serialized 64-bit map or set is the sequence of its
\* uint64_t units.
get_buckets(db) == db.mask_for_hash + 1 + 3

u64map_get_db_place(buckets) == sizeof_u64_database_t + buckets * 16 + u64_alignment

u64_get_db_place(buckets) == sizeof_u64_database_t + buckets * 8 + u64set_alignment

RECURSIVE key_value_units(_, _)
key_value_units(table, n) ==
  IF n = 0 THEN <<>>
  ELSE key_value_units(table, n - 1) \o <<table[n].key, table[n].value>>

hm_u64map_serialized_size(db) == 4 * 8 + get_buckets(db) * 16

\* what hm_u64map_serialize returns and leaves in the buffer: the fourth
\* uint64_t ("dummy") is not written
u64map_serialize(buffer, buffer_size, db) ==
  IF buffer_size < hm_u64map_serialized_size(db)
  THEN [err |-> "HM_ERROR_SMALL_PLACE", size |-> buffer_size, units |-> buffer]
  ELSE [err |-> "HM_SUCCESS", size |-> buffer_size,
        units |-> <<db.factor1, db.factor2, get_buckets(db), buffer[4]>>
                    \o key_value_units(db.hash_table, get_buckets(db))
                    \o SubSeq(buffer, (hm_u64map_serialized_size(db) \div 8) + 1,
                              Len(buffer))]

u64map_db_place_size_from_serialized(buffer, buffer_size) ==
  IF buffer_size <= 4 * 8
  THEN [err |-> "HM_ERROR_SMALL_PLACE", db_place_size |-> 0]
  ELSE IF buffer[3] = 0
  THEN [err |-> "HM_ERROR_NO_MASKS", db_place_size |-> 0]
  ELSE IF buffer_size < 3 * 8 + buffer[3] * 16
  THEN [err |-> "HM_ERROR_SMALL_PLACE", db_place_size |-> 0]
  ELSE [err |-> "HM_SUCCESS", db_place_size |-> u64map_get_db_place(buffer[3])]

\* hm_u64map_deserialize reading the hash table right after the third uint64_t
u64map_deserialize_without_dummy(db_place, db_place_size0, buffer, buffer_size) ==
  [err |-> "HM_SUCCESS", db_ptr |-> "db",
   db |-> [mask_for_hash |-> buffer[3] - 1 - 3,
           factor1 |-> buffer[1], factor2 |-> buffer[2],
           hash_table |-> [i \in 1..buffer[3] |->
                             [key |-> buffer[3 + 2 * i - 1],
                              value |-> buffer[3 + 2 * i]]],
           retries |-> 0]]

\* what hm_u64map_deserialize returns and leaves in *db_ptr and the database
u64map_deserialize(db_place, db_place_size0, buffer, buffer_size) ==
  LET need == u64map_db_place_size_from_serialized(buffer, buffer_size)
      db_place_size == db_place_size0 - (u64_align64(db_place) - db_place)
      buckets == buffer[3]
  IN  IF need.err # "HM_SUCCESS"
      THEN [err |-> need.err, db_ptr |-> "unset", db |-> no_u64_db]
      ELSE IF size_less(db_place_size, need.db_place_size - u64_alignment)
      THEN [err |-> "HM_ERROR_SMALL_PLACE", db_ptr |-> "unset", db |-> no_u64_db]
      ELSE [err |-> "HM_SUCCESS", db_ptr |-> "db",
            db |-> [mask_for_hash |-> buckets - 1 - 3,
                    factor1 |-> buffer[1], factor2 |-> buffer[2],
                    hash_table |-> [i \in 1..buckets |->
                                      [key |-> buffer[4 + 2 * i - 1],
                                       value |-> buffer[4 + 2 * i]]],
                    retries |-> 0]]

RECURSIVE key_units(_, _)
key_units(table, n) ==
  IF n = 0 THEN <<>> ELSE key_units(table, n - 1) \o <<table[n].key>>

hm_u64_serialized_size(db) == (3 + get_buckets(db)) * 8

\* what hm_u64_serialize returns and leaves in the buffer
u64_serialize(buffer, buffer_size, db) ==
  IF buffer_size < hm_u64_serialized_size(db)
  THEN [err |-> "HM_ERROR_SMALL_PLACE", size |-> buffer_size, units |-> buffer]
  ELSE [err |-> "HM_SUCCESS", size |-> buffer_size,
        units |-> <<db.factor1, db.factor2, get_buckets(db)>>
                    \o key_units(db.hash_table, get_buckets(db))
                    \o SubSeq(buffer, (hm_u64_serialized_size(db) \div 8) + 1,
                              Len(buffer))]

u64_db_place_size_from_serialized(buffer, buffer_size) ==
  IF buffer_size <= 3 * 8
  THEN [err |-> "HM_ERROR_SMALL_PLACE", db_place_size |-> 0]
  ELSE IF buffer[3] = 0
  THEN [err |-> "HM_ERROR_NO_MASKS", db_place_size |-> 0]
  ELSE IF buffer_size < (3 + buffer[3]) * 8
  THEN [err |-> "HM_ERROR_SMALL_PLACE", db_place_size |-> 0]
  ELSE [err |-> "HM_SUCCESS", db_place_size |-> u64_get_db_place(buffer[3])]

\* what hm_u64_deserialize returns and leaves in *db_ptr and the database
u64_deserialize(db_place, db_place_size0, buffer, buffer_size) ==
  LET need == u64_db_place_size_from_serialized(buffer, buffer_size)
      db_place_size == db_place_size0 - (u64set_align64(db_place) - db_place)
      buckets == buffer[3]
  IN  IF need.err # "HM_SUCCESS"
      THEN [err |-> need.err, db_ptr |-> "unset", db |-> no_u64_db]
      ELSE IF size_less(db_place_size, need.db_place_size - u64set_alignment)
      THEN [err |-> "HM_ERROR_SMALL_PLACE", db_ptr |-> "unset", db |-> no_u64_db]
      ELSE [err |-> "HM_SUCCESS", db_ptr |-> "db",
            db |-> [mask_for_hash |-> buckets - 1 - 3,
                    factor1 |-> buffer[1], factor2 |-> buffer[2],
                    hash_table |-> [i \in 1..buckets |->
                                      [key |-> buffer[3 + i], value |-> 0]],
                    retries |-> 0]]

\* key lists: none; three keys of one quartet; five keys of one quartet under
\* the initial factors; five keys of one quartet under the initial and the
\* next factors; a key twice; a key 0; a key twice with one and with two
\* overflows of a quartet before its second copy is reached
U64KeyLists ==
  { <<>>, <<9, 15, 34>>, <<17, 24, 35, 41, 54>>, <<3, 97, 279, 405, 604>>,
    <<9, 15, 9>>, <<9, 0>>, <<17, 24, 35, 41, 54, 17>>,
    <<3, 97, 279, 405, 604, 97>> }

U64ValueLists(keys) ==
  { [i \in 1..Len(keys) |-> keys[i] + 1000],
    [i \in 1..Len(keys) |-> IF i = 1 THEN 0 ELSE i] }

U64Places == {0}
U64PlaceSizes == {u64_alignment, hm_u64map_db_place_size(MaxKeys)}

U64Queries == {0, 1, 2, 3, 9, 17, 41, 97, 2000}

\* a key of 8 bytes that is 0
zero_key == ToBytes(0, 8)

\* no compile is taken pass by pass yet
no_loop ==
  [pc |-> "idle", is_map |-> FALSE, keys |-> <<>>, values |-> <<>>,
   err |-> "none", mask_for_hash |-> 0, factor1 |-> zero_key,
   factor2 |-> zero_key, hash_table |-> <<>>, i |-> 0]

MapInit ==
  /\ map_place = no_place
  /\ map_in = [keys |-> <<>>, values |-> <<>>]
  /\ map_err = "none"
  /\ map_db_ptr = "unset"
  /\ map_db = no_u64_db
  /\ map_out = [key |-> 0, value |-> 0, called |-> FALSE]
  /\ map_buffer = no_buffer
  /\ map_copy = no_copy(no_u64_db)
  /\ u64_loop = no_loop

SetInit ==
  /\ set_place = no_place
  /\ set_in = <<>>
  /\ set_err = "none"
  /\ set_db_ptr = "unset"
  /\ set_db = no_u64_db
  /\ set_out = [key |-> 0, found |-> FALSE, called |-> FALSE]
  /\ set_buffer = no_buffer
  /\ set_copy = no_copy(no_u64_db)

hm_u64map_compile(db_place, db_place_size, keys, values) ==
  /\ map_err = "none"
  /\ \E r \in {u64map_compile(db_place, db_place_size, keys, values)} :
         /\ r.err # "running"
         /\ map_place' = [db_place |-> db_place, db_place_size |-> db_place_size]
         /\ map_in' = [keys |-> keys, values |-> values]
         /\ map_err' = r.err
         /\ map_db_ptr' = r.db_ptr
         /\ map_db' = r.db
         /\ UNCHANGED <<map_out, map_buffer, map_copy>>
  /\ UNCHANGED not_map_vars

hm_u64map_find(key) ==
  /\ map_err = "HM_SUCCESS"
  /\ map_out' = [key |-> key, value |-> u64map_find(map_db, key), called |-> TRUE]
  /\ UNCHANGED <<map_place, map_in, map_err, map_db_ptr, map_db, map_buffer, map_copy>>
  /\ UNCHANGED not_map_vars

hm_u64_compile(db_place, db_place_size, keys) ==
  /\ set_err = "none"
  /\ \E r \in {u64_compile(db_place, db_place_size, keys)} :
         /\ r.err # "running"
         /\ set_place' = [db_place |-> db_place, db_place_size |-> db_place_size]
         /\ set_in' = keys
         /\ set_err' = r.err
         /\ set_db_ptr' = r.db_ptr
         /\ set_db' = r.db
         /\ UNCHANGED <<set_out, set_buffer, set_copy>>
  /\ UNCHANGED not_set_vars

hm_u64_find(key) ==
  /\ set_err = "HM_SUCCESS"
  /\ set_out' = [key |-> key, found |-> u64_find(set_db, key), called |-> TRUE]
  /\ UNCHANGED <<set_place, set_in, set_err, set_db_ptr, set_db, set_buffer, set_copy>>
  /\ UNCHANGED not_set_vars

hm_u64map_serialize(buffer_size, junk) ==
  /\ map_err = "HM_SUCCESS"
  /\ map_buffer.err = "none"
  /\ map_buffer' = u64map_serialize([i \in 1..(buffer_size \div 8) |-> junk],
                                    buffer_size, map_db)
  /\ UNCHANGED <<map_place, map_in, map_err, map_db_ptr, map_db, map_out, map_copy>>
  /\ UNCHANGED not_map_vars

hm_u64map_deserialize(db_place, db_place_size) ==
  /\ map_buffer.err = "HM_SUCCESS"
  /\ map_copy.err = "none"
  /\ map_copy' = [db_place |-> db_place, db_place_size |-> db_place_size]
                   @@ u64map_deserialize(db_place, db_place_size,
                                         map_buffer.units, map_buffer.size)
  /\ UNCHANGED <<map_place, map_in, map_err, map_db_ptr, map_db, map_out, map_buffer>>
  /\ UNCHANGED not_map_vars

\* hm_u64map_db_place_size_from_serialized and hm_u64map_deserialize called
\* with the first buffer_size bytes of the serialized map; what a read past
\* these bytes gives is not defined: it gives "beyond"
hm_u64map_deserialize_sized(db_place, db_place_size, buffer_size, beyond) ==
  /\ map_buffer.err = "HM_SUCCESS"
  /\ map_copy.err = "none"
  /\ LET buffer == [i \in 1..Len(map_buffer.units) |->
                      IF i * 8 <= buffer_size THEN map_buffer.units[i]
                      ELSE beyond]
     IN  map_copy' =
           [db_place |-> db_place, db_place_size |-> db_place_size,
            buffer_size |-> buffer_size,
            size_err |-> u64map_db_place_size_from_serialized(
                           buffer, buffer_size).err]
             @@ u64map_deserialize(db_place, db_place_size, buffer, buffer_size)
  /\ UNCHANGED <<map_place, map_in, map_err, map_db_ptr, map_db, map_out, map_buffer>>
  /\ UNCHANGED not_map_vars

hm_u64_serialize(buffer_size, junk) ==
  /\ set_err = "HM_SUCCESS"
  /\ set_buffer.err = "none"
  /\ set_buffer' = u64_serialize([i \in 1..(buffer_size \div 8) |-> junk],
                                 buffer_size, set_db)
  /\ UNCHANGED <<set_place, set_in, set_err, set_db_ptr, set_db, set_out, set_copy>>
  /\ UNCHANGED not_set_vars

hm_u64_deserialize(db_place, db_place_size) ==
  /\ set_buffer.err = "HM_SUCCESS"
  /\ set_copy.err = "none"
  /\ set_copy' = [db_place |-> db_place, db_place_size |-> db_place_size]
                   @@ u64_deserialize(db_place, db_place_size,
                                      set_buffer.units, set_buffer.size)
  /\ UNCHANGED <<set_place, set_in, set_err, set_db_ptr, set_db, set_out, set_buffer>>
  /\ UNCHANGED not_set_vars

U64Next ==
  \/ \E db_place \in U64Places, db_place_size \in U64PlaceSizes,
        keys \in U64KeyLists :
       \E values \in U64ValueLists(keys) :
         hm_u64map_compile(db_place, db_place_size, keys, values)
  \/ \E key \in U64Queries : hm_u64map_find(key)
  \/ \E db_place \in U64Places, db_place_size \in U64PlaceSizes,
        keys \in U64KeyLists :
       hm_u64_compile(db_place, db_place_size, keys)
  \/ \E key \in U64Queries : hm_u64_find(key)

(***************************************************************************)
(* The loop of hm_u64map_compile and hm_u64_compile that looks for the     *)
(* factors, one key of a pass a step.  The keys are uint64_t in full here: *)
(* 8 bytes, the lowest first.  u64_loop holds the position of the call     *)
(* ("idle" before it, "calibrating" inside the loop, "calibrated" after    *)
(* the break that leaves it, "returned" after a return), the arguments,    *)
(* the index i of the for loop and what the call has written to the        *)
(* database.                                                               *)
(***************************************************************************)
\* 0x36B921EE5B5C90F7, the key whose hash under the initial factors is 0
zero_hash_key == <<247, 144, 92, 91, 238, 33, 185, 54>>

\* hm_u64map_hash64(db, key) or hm_u64_hash64(db, key) with the factors of db
loop_hash64(is_map, factor1, factor2, key) ==
  IF is_map THEN hm_u64map_hash64(factor1, factor2, key)
  ELSE hm_u64_hash64(factor1, factor2, key)

\* clear_hash_table for keys of 8 bytes
clear_keys(mask) == [c \in 1..(mask + 4) |-> [key |-> zero_key, value |-> 0]]

\* the body of the for loop: the key goes to the first empty cell of its
\* quartet
put_key(table, b, key, value) ==
  LET free == {c \in quartet(b) : table[c].key = zero_key}
  IN  IF \E c \in quartet(b) : table[c].key = key
      THEN [result |-> "not unique", table |-> table]
      ELSE IF free = {}
      THEN [result |-> "collision", table |-> table]
      ELSE LET c == CHOOSE c1 \in free : \A c2 \in free : c1 <= c2
           IN  [result |-> "put",
                table |-> [table EXCEPT ![c] = [key |-> key, value |-> value]]]

\* "db->factor1 = hash64(db, keys[0]); db->factor2 = hash64(db, keys[0]);":
\* the second call reads the factor1 the first has stored
change_factors(is_map, factor1, factor2, key0) ==
  CHOOSE f \in
    { [factor1 |-> new_factor1,
       factor2 |-> loop_hash64(is_map, new_factor1, factor2, key0)] :
      new_factor1 \in {loop_hash64(is_map, factor1, factor2, key0)} } : TRUE

\* the change of the factors with both calls reading the factors of the pass
change_factors_to_one_hash(is_map, factor1, factor2, key0) ==
  [factor1 |-> loop_hash64(is_map, factor1, factor2, key0),
   factor2 |-> loop_hash64(is_map, factor1, factor2, key0)]

\* the call up to the first pass, the table cleared; db_place is taken to be
\* large enough
compile_enter(is_map, keys, values) ==
  /\ u64_loop.pc = "idle"
  /\ u64_loop' =
       IF Len(keys) = 0
       THEN [no_loop EXCEPT !.pc = "returned", !.is_map = is_map,
                            !.err = "HM_ERROR_NO_MASKS"]
       ELSE IF \E i \in 1..Len(keys) :
                 keys[i] = zero_key \/ (is_map /\ values[i] = 0)
       THEN [no_loop EXCEPT !.pc = "returned", !.is_map = is_map,
                            !.keys = keys, !.values = values,
                            !.err = "HM_ERROR_BAD_VALUE"]
       ELSE LET mask == hash_table_buckets(Len(keys)) - 1 - 3
            IN  [pc |-> "calibrating", is_map |-> is_map, keys |-> keys,
                 values |-> values, err |-> "none", mask_for_hash |-> mask,
                 factor1 |-> initial_factor1, factor2 |-> initial_factor2,
                 hash_table |-> clear_keys(mask), i |-> 0]
  /\ UNCHANGED not_loop_vars

\* one turn of the for loop.  After the last key the loop over the factors is
\* left; a full quartet ends the pass, changes the factors and starts the
\* next pass with the table cleared
compile_put_key ==
  /\ u64_loop.pc = "calibrating"
  /\ \E key \in {u64_loop.keys[u64_loop.i + 1]},
        value \in {IF u64_loop.is_map THEN u64_loop.values[u64_loop.i + 1]
                   ELSE 0} :
       \E h \in {loop_hash64(u64_loop.is_map, u64_loop.factor1,
                             u64_loop.factor2, key)} :
         \E b \in {and_mask(h, u64_loop.mask_for_hash)} :
           \E r \in {put_key(u64_loop.hash_table, b, key, value)} :
             u64_loop' =
               IF r.result = "not unique"
               THEN [u64_loop EXCEPT !.pc = "returned",
                                     !.err = "HM_ERROR_BAD_VALUE"]
               ELSE IF r.result = "put"
               THEN [u64_loop EXCEPT
                       !.pc = IF u64_loop.i + 1 = Len(u64_loop.keys)
                              THEN "calibrated" ELSE "calibrating",
                       !.hash_table = r.table, !.i = u64_loop.i + 1]
               ELSE \* collision = true; break
                    LET f == change_factors(u64_loop.is_map, u64_loop.factor1,
                                            u64_loop.factor2, u64_loop.keys[1])
                    IN  [u64_loop EXCEPT
                           !.factor1 = f.factor1, !.factor2 = f.factor2,
                           !.hash_table = clear_keys(u64_loop.mask_for_hash),
                           !.i = 0]
  /\ UNCHANGED not_loop_vars

\* key lists: a first key and the keys after it.  17, 24, 35, 41 and 54 share
\* a quartet under the initial factors, 3, 97, 279, 405 and 604 under the
\* initial and the next factors
LoopFirstKeys == {zero_hash_key, ToBytes(0, 8), ToBytes(9, 8), ToBytes(17, 8),
                  ToBytes(3, 8), ToBytes(2000, 8)}

LoopTails ==
  { <<>>, <<15, 34>>, <<24, 35, 41, 54>>, <<17, 24, 35, 41, 54>>,
    <<97, 279, 405, 604>>, <<3, 97, 279, 405, 604>>, <<24, 35, 41, 24>>,
    <<17, 24, 35, 41, 54, 9>> }

LoopKeyLists ==
  {<<>>} \cup { <<first>> \o [i \in 1..Len(tail) |-> ToBytes(tail[i], 8)] :
                first \in LoopFirstKeys, tail \in LoopTails }

LoopValueLists(keys) ==
  { [i \in 1..Len(keys) |-> i + 1000],
    [i \in 1..Len(keys) |-> IF i = Len(keys) THEN 0 ELSE i] }

LoopNext ==
  \/ \E keys \in LoopKeyLists : \E values \in LoopValueLists(keys) :
       compile_enter(TRUE, keys, values)
  \/ \E keys \in LoopKeyLists : compile_enter(FALSE, keys, <<>>)
  \/ compile_put_key

(***************************************************************************)
(* The static domain set (static_domain_set.cpp, static_domain_set_find.c). *)
(* A domain is the sequence of its bytes, a pointer into it the offset     *)
(* from its first byte.                                                    *)
(***************************************************************************)
D == 16
MAX_DOMAIN_LEN == 253
MAX_POPULAR_SUFFIXES == 256
CALIB_GROW_STEPS == 60
CALIB_SEED_TRIES == 100
CALIB_GROW_NUM == 21
CALIB_GROW_DEN == 20

chr_dot == 46
chr_dash == 45
chr_underscore == 95

round_up16(x) == (x + 15) - ((x + 15) % 16)

round_up64(x) == (x + 63) - ((x + 63) % 64)

dom_align(addr, alignment) == (addr - (addr % alignment)) + alignment

zeros(n) == [i \in 1..n |-> 0]

\* c | 0x20
or_0x20(c) == IF (c \div 32) % 2 = 1 THEN c ELSE c + 32

is_alpha(c) == or_0x20(c) >= 97 /\ or_0x20(c) <= 122

\* the scalar loop of domain_to_lower
domain_to_lower(src) ==
  [ok  |-> \A i \in 1..Len(src) :
             \/ is_alpha(src[i])
             \/ (src[i] >= 48 /\ src[i] <= 57)
             \/ src[i] = chr_dash
             \/ src[i] = chr_dot
             \/ src[i] = chr_underscore,
   dst |-> SubSeq([i \in 1..Len(src) |->
                     IF is_alpha(src[i]) THEN or_0x20(src[i]) ELSE src[i]],
                  1, Len(src))]

\* while (end > start && end[-1] == '.') end--
RECURSIVE cut_trailing_dots(_)
cut_trailing_dots(s) ==
  IF Len(s) > 0 /\ s[Len(s)] = chr_dot
  THEN cut_trailing_dots(SubSeq(s, 1, Len(s) - 1))
  ELSE s

\* std::lexicographical_compare of a.rbegin().. and b.rbegin()..; i bytes
\* from the end were equal
RECURSIVE less_rev_from(_, _, _)
less_rev_from(a, b, i) ==
  IF i >= Len(a) \/ i >= Len(b) THEN i >= Len(a) /\ i < Len(b)
  ELSE IF a[Len(a) - i] < b[Len(b) - i] THEN TRUE
  ELSE IF b[Len(b) - i] < a[Len(a) - i] THEN FALSE
  ELSE less_rev_from(a, b, i + 1)

less_rev_char(a, b) == less_rev_from(a, b, 0)

is_subdomain(s, suf) ==
  IF Len(s) < Len(suf) THEN FALSE
  ELSE IF SubSeq(s, Len(s) - Len(suf) + 1, Len(s)) # suf THEN FALSE
  ELSE IF Len(s) = Len(suf) THEN TRUE
  ELSE s[Len(s) - Len(suf)] = chr_dot

\* std::sort by less_rev_char: the place of the i-th domain is the number of
\* domains that go before it (equal domains are the same bytes)
rev_rank(domains, i) ==
  Cardinality({j \in 1..Len(domains) :
                 \/ less_rev_char(domains[j], domains[i])
                 \/ (domains[j] = domains[i] /\ j < i)})

sort_rev_char(domains) ==
  LET ranks == SubSeq([i \in 1..Len(domains) |-> rev_rank(domains, i)],
                      1, Len(domains))
  IN  SubSeq([k \in 1..Len(domains) |->
                domains[CHOOSE i \in 1..Len(domains) : ranks[i] = k - 1]],
             1, Len(domains))

\* the loop of prune_subdomains_revchar from the i-th sorted domain on
RECURSIVE prune_from(_, _, _)
prune_from(sorted, i, out) ==
  IF i > Len(sorted) THEN out
  ELSE IF out = <<>> THEN prune_from(sorted, i + 1, <<sorted[i]>>)
  ELSE IF is_subdomain(sorted[i], out[Len(out)])
  THEN prune_from(sorted, i + 1, out)
  ELSE prune_from(sorted, i + 1, Append(out, sorted[i]))

prune_subdomains_revchar(domains) ==
  IF domains = <<>> THEN <<>> ELSE prune_from(sort_rev_char(domains), 1, <<>>)

\* one domain of the loop of preprocess_domains_views: trailing dots cut,
\* length checked, lowercased
preprocess_domain(start) ==
  LET trimmed == cut_trailing_dots(start)
      low == domain_to_lower(trimmed)
  IN  IF Len(trimmed) = 0 \/ Len(trimmed) > MAX_DOMAIN_LEN THEN [ok |-> FALSE, view |-> <<>>]
      ELSE IF ~low.ok THEN [ok |-> FALSE, view |-> <<>>]
      ELSE [ok |-> TRUE, view |-> low.dst]

preprocess_domains_views(domains) ==
  LET each == SubSeq([i \in 1..Len(domains) |-> preprocess_domain(domains[i])],
                     1, Len(domains))
  IN  IF \E i \in 1..Len(each) : ~each[i].ok
      THEN [ok |-> FALSE, domains_views |-> <<>>]
      ELSE [ok |-> TRUE,
            domains_views |->
              prune_subdomains_revchar(SubSeq([i \in 1..Len(each) |-> each[i].view],
                                              1, Len(each)))]

\* cut_last_domain_label_naive(s, e) over the bytes of str: the offset after
\* the last '.' of [s, e), or s
cut_last_domain_label_naive(str, s, e) ==
  LET dots == {p \in s..(e - 1) : str[p + 1] = chr_dot}
  IN  IF s >= e \/ dots = {} THEN s
      ELSE (CHOOSE p \in dots : \A q \in dots : q <= p) + 1

\* the loop of suffix_last_k_labels after i labels, prefix_end being the
\* offset of the '.' before them
RECURSIVE last_k_labels_from(_, _, _, _)
last_k_labels_from(s, k, i, prefix_end) ==
  IF i = k THEN SubSeq(s, prefix_end + 2, Len(s))
  ELSE LET label == cut_last_domain_label_naive(s, 0, prefix_end)
       IN  IF label = 0 THEN s
           ELSE last_k_labels_from(s, k, i + 1, label - 1)

suffix_last_k_labels(s, k) == last_k_labels_from(s, k, 0, Len(s))

\* operator< of std::string_view: the bytes, then the length
RECURSIVE less_string_from(_, _, _)
less_string_from(a, b, i) ==
  IF i > Len(a) \/ i > Len(b) THEN Len(a) < Len(b)
  ELSE IF a[i] < b[i] THEN TRUE
  ELSE IF b[i] < a[i] THEN FALSE
  ELSE less_string_from(a, b, i + 1)

less_string(a, b) == less_string_from(a, b, 1)

\* a set of strings as the ascending sequence std::map and std::sort give
sorted_strings(S) ==
  SubSeq([k \in 1..Cardinality(S) |->
            CHOOSE s \in S : Cardinality({t \in S : less_string(t, s)}) = k - 1],
         1, Cardinality(S))

\* the loop of find_popular_suffixes: the groups of the frontier by the last
\* depth labels, those of more than D domains are popular and go on
RECURSIVE popular_from(_, _, _)
popular_from(frontier, depth, popular) ==
  LET keys == SubSeq([i \in 1..Len(frontier) |->
                        suffix_last_k_labels(frontier[i], depth)],
                     1, Len(frontier))
      big == {key \in {keys[i] : i \in 1..Len(keys)} :
                Cardinality({i \in 1..Len(keys) : keys[i] = key}) > D}
      next_frontier ==
        SubSeq([n \in 1..Cardinality({i \in 1..Len(keys) : keys[i] \in big}) |->
                  frontier[CHOOSE i \in 1..Len(keys) :
                             /\ keys[i] \in big
                             /\ Cardinality({j \in 1..i : keys[j] \in big}) = n]],
               1, Cardinality({i \in 1..Len(keys) : keys[i] \in big}))
  IN  IF big = {} THEN popular
      ELSE popular_from(next_frontier, depth + 1, popular \cup big)

find_popular_suffixes(domains) ==
  IF domains = <<>> THEN <<>> ELSE sorted_strings(popular_from(domains, 2, {}))

\* hash64_span_ci: XXH3_64bits_withSeed stands behind it.  A word of HashBits
\* bits stands for its 64 bits: the low half for (uint32_t)h, the high half
\* for (h >> 32) & 0xFFFF.
HashHalf == 1024
HashRange == 1000003

RECURSIVE hash_bytes(_, _, _)
hash_bytes(span, i, h) ==
  IF i > Len(span) THEN h
  ELSE hash_bytes(span, i + 1, (h * 131 + span[i] + 1) % HashRange)

hash64_span_ci(span, seed) ==
  LET h == hash_bytes(span, 1, (seed + Len(span)) % HashRange)
  IN  (h * 1597 + (h \div HashHalf)) % HashRange

\* (uint64_t)hash_seed of the uint32_t seed <<high half, low half>>
seed_word(hash_seed) == (hash_seed[1] * 64 + hash_seed[2]) % HashRange

low32(h) == h % HashHalf

tag16(h) == h \div HashHalf

\* fastmod_u32(a, M, d)
fastmod_u32(a, d) == a % d

\* the last two labels of str, or its only label
last_two_labels(str) ==
  LET suffix == cut_last_domain_label_naive(str, 0, Len(str))
  IN  IF suffix > 0 THEN cut_last_domain_label_naive(str, 0, suffix - 1)
      ELSE suffix

\* the hash chained over the labels to the left of the offset cur;
\* scans counts them
RECURSIVE chain_left(_, _, _, _)
chain_left(str, cur, h, scans) ==
  IF cur > 0
  THEN LET label_end == cur - 1
           label_start == cut_last_domain_label_naive(str, 0, label_end)
       IN  chain_left(str, label_start,
                      hash64_span_ci(SubSeq(str, label_start + 1, label_end), h),
                      scans + 1)
  ELSE [h |-> h, scans |-> scans]

\* "Cut popular part from the end if it is present"
RECURSIVE cut_popular(_, _, _, _)
cut_popular(str, popular_suffixes, suffix_after_pop, h) ==
  IF /\ suffix_after_pop > 0
     /\ \E i \in 1..Len(popular_suffixes) :
          popular_suffixes[i] = SubSeq(str, suffix_after_pop + 1, Len(str))
  THEN LET label_end == suffix_after_pop - 1
           label_start == cut_last_domain_label_naive(str, 0, label_end)
       IN  cut_popular(str, popular_suffixes, label_start,
                       hash64_span_ci(SubSeq(str, label_start + 1, label_end), h))
  ELSE [suffix_after_pop |-> suffix_after_pop, h |-> h]

build_chained_bucket_and_tag(str, hash_seed, popular_suffixes) ==
  LET suffix == last_two_labels(str)
      h0 == hash64_span_ci(SubSeq(str, suffix + 1, Len(str)), seed_word(hash_seed))
      pop == cut_popular(str, popular_suffixes, suffix, h0)
      left == chain_left(str, pop.suffix_after_pop, pop.h, 1)
  IN  [tag16 |-> tag16(left.h), bucket_hash32 |-> low32(pop.h),
       max_scans |-> left.scans]

no_preview == [tags |-> zeros(D), items |-> <<>>, max_scans |-> 0]

\* the loop of try_build_records from the i-th domain on
RECURSIVE build_records_from(_, _, _, _, _, _)
build_records_from(domains, hash_seed, buckets_num, popular_suffixes, i, out) ==
  IF i > Len(domains) THEN [ok |-> TRUE, out |-> out]
  ELSE IF domains[i] = <<>>
  THEN build_records_from(domains, hash_seed, buckets_num, popular_suffixes,
                          i + 1, out)
  ELSE LET bt == build_chained_bucket_and_tag(domains[i], hash_seed,
                                              popular_suffixes)
           b == fastmod_u32(bt.bucket_hash32, buckets_num) + 1
           rec == out[b]
       IN  IF Len(rec.items) >= D THEN [ok |-> FALSE, out |-> out]
           ELSE build_records_from(
                  domains, hash_seed, buckets_num, popular_suffixes, i + 1,
                  [out EXCEPT ![b] =
                     [tags |-> [rec.tags EXCEPT ![Len(rec.items) + 1] = bt.tag16],
                      items |-> Append(rec.items, domains[i]),
                      max_scans |-> IF rec.max_scans < bt.max_scans
                                    THEN bt.max_scans ELSE rec.max_scans]])

try_build_records(domains, hash_seed, buckets_num, popular_suffixes) ==
  build_records_from(domains, hash_seed, buckets_num, popular_suffixes, 1,
                     [b \in 1..buckets_num |-> no_preview])

\* "Increase buckets by ~5%, at least +1"
grow_buckets(buckets_num) ==
  LET buckets_num2 == (buckets_num * CALIB_GROW_NUM) \div CALIB_GROW_DEN
  IN  IF buckets_num2 > buckets_num + 1 THEN buckets_num2 ELSE buckets_num + 1

initial_seed == <<41343, 9028>>   \* 0xA17F2344

\* seed after k more "seed++"
seed_plus(seed, k) ==
  LET low == seed[2] + k
  IN  <<(seed[1] + (low \div 65536)) % 65536, low % 65536>>

\* the loop "for t" of calibrate_and_build_preview over the n tries from the
\* try t on, "seed" being the seed before the try 0: the first try without an
\* overflow, or the last try.  The tries are split in two halves, the second
\* half looked at when the first has no try without an overflow.
RECURSIVE seed_tries(_, _, _, _, _, _)
seed_tries(domains_views, popular_suffixes, buckets_num, seed, t, n) ==
  IF n = 1
  THEN CHOOSE res \in
         { [ok |-> r.ok, seed |-> seed1, out |-> r.out, t |-> t] :
           seed1 \in {seed_plus(seed, t + 1)},
           r \in {try_build_records(domains_views, seed_plus(seed, t + 1),
                                    buckets_num, popular_suffixes)} } : TRUE
  ELSE CHOOSE res \in
         { IF first.ok THEN first
           ELSE seed_tries(domains_views, popular_suffixes, buckets_num, seed,
                           t + (n \div 2), n - (n \div 2)) :
           first \in {seed_tries(domains_views, popular_suffixes, buckets_num,
                                 seed, t, n \div 2)} } : TRUE

\* the loop "for grow" of calibrate_and_build_preview from the step grow on
RECURSIVE calibrate_from(_, _, _, _, _)
calibrate_from(domains_views, popular_suffixes, buckets_num, seed, grow) ==
  IF grow >= CALIB_GROW_STEPS
  THEN [ok |-> FALSE, seed |-> seed, popular_suffixes |-> <<>>,
        preview_buckets |-> <<>>, tries |-> 0]
  ELSE CHOOSE res \in
         { IF r.ok
           THEN [ok |-> TRUE, seed |-> r.seed,
                 popular_suffixes |-> popular_suffixes,
                 preview_buckets |-> r.out,
                 tries |-> grow * CALIB_SEED_TRIES + r.t + 1]
           ELSE CHOOSE next \in
                  { calibrate_from(domains_views, popular_suffixes, new_buckets,
                                   r.seed, grow + 1) :
                    new_buckets \in {grow_buckets(buckets_num)} } : TRUE :
           r \in {seed_tries(domains_views, popular_suffixes, buckets_num,
                             seed, 0, CALIB_SEED_TRIES)} } : TRUE

calibrate_and_build_preview(domains_views, popular_suffixes) ==
  calibrate_from(domains_views, popular_suffixes, (Len(domains_views) \div D) + 1,
                 initial_seed, 0)

sizeof_hm_domain_database_t == 56
sizeof_domains_table_record_t == 64

\* a string of the blob: its bytes, the 0x00 and the zeros up to D bytes
padded(s) == s \o zeros(round_up16(Len(s) + 1) - Len(s))

\* the bytes the first n of the strings take in the blob
RECURSIVE padded_size(_, _)
padded_size(items, n) ==
  IF n = 0 THEN 0
  ELSE padded_size(items, n - 1) + round_up16(Len(items[n]) + 1)

RECURSIVE padded_all(_, _)
padded_all(items, n) ==
  IF n = 0 THEN <<>> ELSE padded_all(items, n - 1) \o padded(items[n])

\* the record of the strings "items" with the tags "tags" laid out at cur_blob
table_record(items, tags, max_scans, cur_blob) ==
  [domains_hashes |->
     [i \in 1..D |-> IF i <= Len(items) THEN tags[i] ELSE 0],
   domains_offsets |->
     [i \in 1..D |-> IF i <= Len(items)
                     THEN (padded_size(items, i - 1) \div D) % 256 ELSE 0],
   used_slots |-> Len(items),
   max_scans |-> max_scans,
   domains_blob_offset |-> cur_blob]

\* the tag of a popular suffix: the hash of its last two labels chained over
\* the labels to the left
popular_tag(sv, hash_seed) ==
  LET suffix2 == last_two_labels(sv)
      h == hash64_span_ci(SubSeq(sv, suffix2 + 1, Len(sv)), seed_word(hash_seed))
  IN  tag16(chain_left(sv, suffix2, h, 0).h)

\* the records of the popular table from the r-th (counted from 0) on
RECURSIVE popular_records_from(_, _, _, _, _)
popular_records_from(popular_suffixes, hash_seed, r, cur_blob, recs) ==
  IF r * D >= Len(popular_suffixes) THEN [recs |-> recs, cur_blob |-> cur_blob]
  ELSE LET last == IF (r + 1) * D < Len(popular_suffixes) THEN (r + 1) * D
                   ELSE Len(popular_suffixes)
           items == SubSeq(popular_suffixes, r * D + 1, last)
           tags == [i \in 1..Len(items) |-> popular_tag(items[i], hash_seed)]
       IN  popular_records_from(
             popular_suffixes, hash_seed, r + 1,
             cur_blob + padded_size(items, Len(items)),
             Append(recs, table_record(items, tags, 0, cur_blob)))

\* the records of the domains table from the b-th bucket on
RECURSIVE domains_records_from(_, _, _, _)
domains_records_from(preview_buckets, b, cur_blob, recs) ==
  IF b > Len(preview_buckets) THEN [recs |-> recs, cur_blob |-> cur_blob]
  ELSE LET src_rec == preview_buckets[b]
       IN  domains_records_from(
             preview_buckets, b + 1,
             cur_blob + padded_size(src_rec.items, Len(src_rec.items)),
             Append(recs, table_record(src_rec.items, src_rec.tags,
                                       src_rec.max_scans, cur_blob)))

RECURSIVE bucket_bytes(_, _)
bucket_bytes(preview_buckets, b) ==
  IF b = 0 THEN 0
  ELSE bucket_bytes(preview_buckets, b - 1)
         + padded_size(preview_buckets[b].items, Len(preview_buckets[b].items))

RECURSIVE bucket_strings(_, _)
bucket_strings(preview_buckets, b) ==
  IF b = 0 THEN <<>>
  ELSE bucket_strings(preview_buckets, b - 1)
         \o padded_all(preview_buckets[b].items, Len(preview_buckets[b].items))

no_domain_db ==
  [buckets |-> 0, hash_seed |-> <<0, 0>>, popular_table |-> <<>>,
   popular_records |-> 0, popular_count |-> 0, domains_table |-> <<>>,
   domains_blob |-> <<>>, domains_blob_size |-> 0, tries |-> 0]

\* build_db_from_preview; "written" tells how much of db_place was written
build_db_from_preview(db_place, db_place_size, calib) ==
  LET p == dom_align(db_place, 64)
      header == round_up64(sizeof_hm_domain_database_t)
      buckets_num == Len(calib.preview_buckets)
      table_bytes == buckets_num * sizeof_domains_table_record_t
      popular_records == (Len(calib.popular_suffixes) + D - 1) \div D
      popular_bytes == popular_records * sizeof_domains_table_record_t
      blob_bytes == padded_size(calib.popular_suffixes, Len(calib.popular_suffixes))
                      + bucket_bytes(calib.preview_buckets, buckets_num) + 256
      total_bytes_after_header == table_bytes + popular_bytes + blob_bytes
      pop == popular_records_from(calib.popular_suffixes, calib.seed, 0, 0, <<>>)
      dom == domains_records_from(calib.preview_buckets, 1, pop.cur_blob, <<>>)
  IN  IF p - db_place > db_place_size
      THEN [err |-> "HM_ERROR_SMALL_PLACE", db_ptr |-> "unset",
            db |-> no_domain_db, written |-> "nothing"]
      ELSE IF db_place_size - (p - db_place) < header
      THEN [err |-> "HM_ERROR_SMALL_PLACE", db_ptr |-> "unset",
            db |-> no_domain_db, written |-> "nothing"]
      ELSE IF db_place_size - (p + header - db_place) < total_bytes_after_header
      THEN [err |-> "HM_ERROR_SMALL_PLACE", db_ptr |-> "unset",
            db |-> no_domain_db, written |-> "header"]
      ELSE [err |-> "HM_SUCCESS", db_ptr |-> "db",
            db |-> [buckets |-> buckets_num,
                    hash_seed |-> calib.seed,
                    popular_table |-> pop.recs,
                    popular_records |-> popular_records,
                    popular_count |-> Len(calib.popular_suffixes),
                    domains_table |-> dom.recs,
                    domains_blob |->
                      padded_all(calib.popular_suffixes, Len(calib.popular_suffixes))
                        \o bucket_strings(calib.preview_buckets, buckets_num)
                        \o zeros(256),
                    domains_blob_size |-> blob_bytes,
                    tries |-> calib.tries],
            written |-> "database"]

\* the growth loop of hm_domain_db_place_size
RECURSIVE grown_buckets(_, _)
grown_buckets(buckets_num, grow) ==
  IF grow >= CALIB_GROW_STEPS THEN buckets_num
  ELSE CHOOSE r \in { grown_buckets(new_buckets, grow + 1) :
                      new_buckets \in {grow_buckets(buckets_num)} } : TRUE

hm_domain_db_place_size(domains) ==
  LET pre == preprocess_domains_views(domains)
      popular_suffixes == find_popular_suffixes(pre.domains_views)
      buckets_num == grown_buckets((Len(pre.domains_views) \div D) + 1, 0)
      blob_bytes == padded_size(popular_suffixes, Len(popular_suffixes))
                      + padded_size(pre.domains_views, Len(pre.domains_views)) + 256
      popular_records == (Len(popular_suffixes) + D - 1) \div D
  IN  IF Len(domains) = 0 THEN 0
      ELSE IF ~pre.ok THEN 0
      ELSE IF pre.domains_views = <<>> THEN 0
      ELSE sizeof_hm_domain_database_t
             + buckets_num * sizeof_domains_table_record_t
             + popular_records * sizeof_domains_table_record_t
             + blob_bytes + 2 * 64

domain_failed(err) ==
  [err |-> err, db_ptr |-> "unset", db |-> no_domain_db, written |-> "nothing"]

\* hm_domain_compile once the popular suffixes are found
domain_compile_popular(db_place, db_place_size, domains_views, popular_suffixes) ==
  IF Len(popular_suffixes) > MAX_POPULAR_SUFFIXES
  THEN domain_failed("HM_ERROR_TOO_MANY_POPULAR_DOMAINS")
  ELSE CHOOSE r \in
         { IF ~calib.ok THEN domain_failed("HM_ERROR_BAD_VALUE")
           ELSE build_db_from_preview(db_place, db_place_size, calib) :
           calib \in {calibrate_and_build_preview(domains_views,
                                                  popular_suffixes)} } : TRUE

\* hm_domain_compile once the domains are preprocessed
domain_compile_views(db_place, db_place_size, pre) ==
  IF ~pre.ok THEN domain_failed("HM_ERROR_BAD_VALUE")
  ELSE IF \E i \in 1..Len(pre.domains_views) :
            \A j \in 1..Len(pre.domains_views[i]) :
              pre.domains_views[i][j] # chr_dot
  THEN domain_failed("HM_ERROR_TOP_LEVEL_DOMAIN")
  ELSE CHOOSE r \in
         { domain_compile_popular(db_place, db_place_size, pre.domains_views,
                                  popular_suffixes) :
           popular_suffixes \in {find_popular_suffixes(pre.domains_views)} } : TRUE

\* what hm_domain_compile returns and leaves
domain_compile(db_place, db_place_size, domains) ==
  IF Len(domains) <= 0 THEN domain_failed("HM_ERROR_NO_MASKS")
  ELSE CHOOSE r \in
         { domain_compile_views(db_place, db_place_size, pre) :
           pre \in {preprocess_domains_views(domains)} } : TRUE

\* the scalar cutters of hm_domain_find
cut_last_domain_label_fast(str, s, e) == cut_last_domain_label_naive(str, s, e)

cut_two_last_domain_labels_fast(str) ==
  LET p1 == cut_last_domain_label_naive(str, 0, Len(str))
  IN  IF p1 > 0 THEN cut_last_domain_label_naive(str, 0, p1 - 1) ELSE 0

\* scan_tags with a memcmp of suffix_len bytes, the final 0x00 left out
scan_tags_without_terminator(db, rec, tag, suffix) ==
  \E i \in 1..rec.used_slots :
    /\ rec.domains_hashes[i] = tag
    /\ LET cand == rec.domains_blob_offset + rec.domains_offsets[i] * D
       IN  SubSeq(db.domains_blob, cand + 1, cand + Len(suffix)) = suffix

\* scan_tags: memcmp of the suffix and its final 0x00 with the blob
scan_tags(db, rec, tag, suffix) ==
  \E i \in 1..rec.used_slots :
    /\ rec.domains_hashes[i] = tag
    /\ LET cand == rec.domains_blob_offset + rec.domains_offsets[i] * D
       IN  SubSeq(db.domains_blob, cand + 1, cand + Len(suffix) + 1)
             = suffix \o <<0>>

popular_suffix_exists(db, tag, suffix) ==
  \E r \in 1..db.popular_records : scan_tags(db, db.popular_table[r], tag, suffix)

\* "If the current suffix is popular (by exact-suffix match), extend left"
RECURSIVE extend_popular(_, _, _, _)
extend_popular(db, str, suffix, suffix_hash) ==
  IF /\ suffix > 0
     /\ popular_suffix_exists(db, tag16(suffix_hash),
                              SubSeq(str, suffix + 1, Len(str)))
  THEN LET label_end == suffix - 1
           label == cut_last_domain_label_fast(str, 0, label_end)
       IN  extend_popular(db, str, label,
                          hash64_span_ci(SubSeq(str, label + 1, label_end),
                                         suffix_hash))
  ELSE [suffix |-> suffix, suffix_hash |-> suffix_hash]

\* the loop of the scans inside the bucket
RECURSIVE scan_bucket(_, _, _, _, _, _)
scan_bucket(db, rec, str, suffix, suffix_hash, scans) ==
  IF scan_tags(db, rec, tag16(suffix_hash), SubSeq(str, suffix + 1, Len(str)))
  THEN 1
  ELSE IF scans >= rec.max_scans THEN 0
  ELSE IF suffix <= 0 THEN 0
  ELSE LET label_end == suffix - 1
           label == cut_last_domain_label_fast(str, 0, label_end)
       IN  scan_bucket(db, rec, str, label,
                       hash64_span_ci(SubSeq(str, label + 1, label_end),
                                      suffix_hash),
                       scans + 1)

\* hm_domain_find once the domain is lowercased
domain_find_lower(db, str) ==
  LET suffix == cut_two_last_domain_labels_fast(str)
      start == extend_popular(
                 db, str, suffix,
                 hash64_span_ci(SubSeq(str, suffix + 1, Len(str)),
                                seed_word(db.hash_seed)))
      bucket == fastmod_u32(low32(start.suffix_hash), db.buckets)
  IN  scan_bucket(db, db.domains_table[bucket + 1], str, start.suffix,
                  start.suffix_hash, 1)

domain_find(db, domain) ==
  LET trimmed == cut_trailing_dots(domain)
      low == domain_to_lower(trimmed)
  IN  IF Len(trimmed) > MAX_DOMAIN_LEN \/ Len(trimmed) = 0 THEN -1
      ELSE IF ~low.ok THEN -1
      ELSE domain_find_lower(db, low.dst)

\* The serialized form: the magic, then the memory of the database from its
\* header to the end of the blob.  The buffer is the sequence of the magic (4
\* bytes), the header (64 bytes), the records of both tables (64 bytes each)
\* and the bytes of the blob.
STATIC_DOMAIN_SET_MAGIC == 1396985160   \* 0x53444D48

ALIGN_HEADROOM == 64

hm_domain_serialized_size(db) ==
  4 + round_up64(sizeof_hm_domain_database_t)
    + db.popular_records * sizeof_domains_table_record_t
    + db.buckets * sizeof_domains_table_record_t + db.domains_blob_size

\* what hm_domain_serialize returns and leaves in the buffer
domain_serialize(buffer, buffer_size, db) ==
  IF buffer_size < hm_domain_serialized_size(db)
  THEN [err |-> "HM_ERROR_SMALL_PLACE", size |-> buffer_size, units |-> buffer]
  ELSE [err |-> "HM_SUCCESS", size |-> buffer_size,
        units |-> <<STATIC_DOMAIN_SET_MAGIC,
                    [buckets |-> db.buckets, hash_seed |-> db.hash_seed,
                     popular_records |-> db.popular_records,
                     popular_count |-> db.popular_count,
                     domains_blob_size |-> db.domains_blob_size]>>
                    \o db.popular_table \o db.domains_table \o db.domains_blob]

domain_db_place_size_from_serialized(buffer, buffer_size) ==
  LET hdr == buffer[2]
      total_bytes_after_header ==
        hdr.buckets * sizeof_domains_table_record_t
          + hdr.popular_records * sizeof_domains_table_record_t
          + hdr.domains_blob_size
  IN  IF buffer_size < 4 + 64
      THEN [err |-> "HM_ERROR_SMALL_PLACE", db_place_size |-> 0]
      ELSE IF buffer[1] # STATIC_DOMAIN_SET_MAGIC
      THEN [err |-> "HM_ERROR_BAD_VALUE", db_place_size |-> 0]
      ELSE IF hdr.domains_blob_size % 16 # 0 \/ hdr.domains_blob_size < 256
      THEN [err |-> "HM_ERROR_BAD_VALUE", db_place_size |-> 0]
      ELSE IF buffer_size - (4 + 64) < total_bytes_after_header
      THEN [err |-> "HM_ERROR_SMALL_PLACE", db_place_size |-> 0]
      ELSE [err |-> "HM_SUCCESS",
            db_place_size |-> round_up64(sizeof_hm_domain_database_t)
                                + total_bytes_after_header + 2 * ALIGN_HEADROOM]

\* "Rebuild per-record base pointers and validate offsets" of one table
\* rec->domains_offsets[i]: the array has D bytes and the record goes on with
\* the pointer domains_blob, which the validation has just set, so that a read
\* of a slot after the D-th finds a byte of an address, "beyond"
slot_offset(rec, i, beyond) ==
  IF i <= D THEN rec.domains_offsets[i] ELSE beyond

records_valid(recs, domains_blob_size, beyond) ==
  \A r \in 1..Len(recs) :
    /\ recs[r].domains_blob_offset <= domains_blob_size
    /\ \A i \in 1..recs[r].used_slots :
         recs[r].domains_blob_offset + slot_offset(recs[r], i, beyond) * D
           + MAX_DOMAIN_LEN < domains_blob_size

\* what hm_domain_deserialize returns and leaves in *db_ptr and the database
domain_deserialize(db_place, db_place_size, buffer, buffer_size, beyond) ==
  LET need == domain_db_place_size_from_serialized(buffer, buffer_size)
      hdr == buffer[2]
      popular_at == 2
      table_at == popular_at + hdr.popular_records
      blob_at == table_at + hdr.buckets
      db == [buckets |-> hdr.buckets, hash_seed |-> hdr.hash_seed,
             popular_table |-> SubSeq(buffer, popular_at + 1, table_at),
             popular_records |-> hdr.popular_records,
             popular_count |-> hdr.popular_count,
             domains_table |-> SubSeq(buffer, table_at + 1, blob_at),
             domains_blob |-> SubSeq(buffer, blob_at + 1,
                                     blob_at + hdr.domains_blob_size),
             domains_blob_size |-> hdr.domains_blob_size, tries |-> 0]
  IN  IF need.err # "HM_SUCCESS"
      THEN [err |-> need.err, db_ptr |-> "unset", db |-> no_domain_db]
      ELSE IF db_place_size < need.db_place_size
      THEN [err |-> "HM_ERROR_SMALL_PLACE", db_ptr |-> "unset",
            db |-> no_domain_db]
      ELSE IF dom_align(db_place, 64) - db_place > db_place_size
      THEN [err |-> "HM_ERROR_SMALL_PLACE", db_ptr |-> "unset",
            db |-> no_domain_db]
      ELSE IF ~records_valid(db.domains_table, db.domains_blob_size, beyond)
      THEN [err |-> "HM_ERROR_BAD_VALUE", db_ptr |-> "db", db |-> db]
      ELSE IF ~records_valid(db.popular_table, db.domains_blob_size, beyond)
      THEN [err |-> "HM_ERROR_BAD_VALUE", db_ptr |-> "db", db |-> db]
      ELSE [err |-> "HM_SUCCESS", db_ptr |-> "db", db |-> db]

\* labels and domains of the inputs
RECURSIVE join_labels(_)
join_labels(labels) ==
  IF Len(labels) = 1 THEN labels[1]
  ELSE labels[1] \o <<chr_dot>> \o join_labels(Tail(labels))

lbl_co == <<99, 111>>                   \* "co"
lbl_uk == <<117, 107>>                  \* "uk"
lbl_x_co == <<120, 45, 99, 111>>        \* "x-co"
lbl_com == <<99, 111, 109>>             \* "com"
lbl_org == <<111, 114, 103>>            \* "org"
lbl_ex == <<101, 120>>                  \* "ex"
lbl_EX == <<69, 88>>                    \* "EX"
lbl_a == <<97>>                         \* "a"
lbl_b == <<98>>                         \* "b"
lbl_z == <<122>>                        \* "z"
lbl_aaob == <<97, 97, 111, 98>>         \* "aaob"
lbl_ibaa == <<105, 98, 97, 97>>         \* "ibaa"
lbl_s(i) == <<115, 96 + i>>             \* "sa", "sb", ...
lbl_d(i) == <<100, 96 + ((i - 1) % 26) + 1, 48 + ((i - 1) \div 26)>>  \* "da0", ...

co_uk == join_labels(<<lbl_co, lbl_uk>>)
x_co_uk == join_labels(<<lbl_x_co, lbl_uk>>)
\* "qy.cow" and its prefix "qy.co" have the same tag under the first seed, and
\* so have "ex.com" and "il.com"
qy_cow == join_labels(<<<<113, 121>>, <<99, 111, 119>>>>)
qy_co == join_labels(<<<<113, 121>>, lbl_co>>)
il_com == join_labels(<<<<105, 108>>, lbl_com>>)
ex_com == join_labels(<<lbl_ex, lbl_com>>)
sub_co_uk(i) == join_labels(<<lbl_s(i), lbl_co, lbl_uk>>)

MaxSubdomains == 16
MaxDomains == 31

\* lists of domains: co.uk, x-co.uk and subdomains of co.uk; D + 1
\* subdomains of co.uk; D + 1 subdomains of a.co.uk; a domain and its
\* subdomain, upper case and a final dot; many domains of two labels; none; a
\* top-level domain; a byte that is not allowed
DomainLists ==
  { <<co_uk, x_co_uk>> \o [i \in 1..MaxSubdomains |-> sub_co_uk(i)],
    [i \in 1..(D + 1) |-> sub_co_uk(i)],
    [i \in 1..(D + 1) |-> join_labels(<<lbl_s(i), lbl_a, lbl_co, lbl_uk>>)],
    <<ex_com, join_labels(<<lbl_a, lbl_ex, lbl_com>>),
      join_labels(<<lbl_b, lbl_a, lbl_org>>),
      join_labels(<<lbl_EX, lbl_org>>) \o <<chr_dot>>, qy_cow>>,
    [i \in 1..MaxDomains |-> join_labels(<<lbl_d(i), lbl_com>>)],
    <<>>,
    <<lbl_com, ex_com>>,
    <<join_labels(<<<<97, 32, 98>>, lbl_com>>)>> }

\* D subdomains of each of aaob.com and ibaa.com: the two groups share the
\* bucket under every seed and every number of buckets
CollidingDomains ==
  [i \in 1..(2 * D) |->
     join_labels(<<lbl_s(((i - 1) % D) + 1),
                   IF i <= D THEN lbl_aaob ELSE lbl_ibaa, lbl_com>>)]

DomainPlaces == {0}

\* the reported size, a size that does not hold the aligned header, and one
\* that holds the header and nothing more
DomainPlaceSizes(domains) ==
  {hm_domain_db_place_size(domains), 100, 3 * ALIGN_HEADROOM}

QueryPrefixes == { <<lbl_z>>, <<lbl_a, lbl_b>> }

QueryBases ==
  { co_uk, x_co_uk, sub_co_uk(1), sub_co_uk(D + 1), ex_com, qy_cow, qy_co, il_com,
    join_labels(<<lbl_a, lbl_co, lbl_uk>>),
    join_labels(<<lbl_s(1), lbl_a, lbl_co, lbl_uk>>),
    join_labels(<<lbl_a, lbl_org>>),
    join_labels(<<lbl_b, lbl_a, lbl_org>>),
    join_labels(<<lbl_ex, lbl_org>>),
    join_labels(<<lbl_d(1), lbl_com>>),
    join_labels(<<lbl_d(MaxDomains), lbl_com>>) }

DomainQueries ==
  QueryBases
    \cup { join_labels(pre) \o <<chr_dot>> \o base :
             pre \in QueryPrefixes, base \in {co_uk, sub_co_uk(1), ex_com} }
    \cup { lbl_uk, <<>>, join_labels(<<<<97, 32, 98>>, lbl_com>>),
           join_labels(<<<<90>>, <<67, 79>>, <<85, 75>>>>) \o <<chr_dot>> }

DomainInit ==
  /\ dom_place = no_place
  /\ dom_in = <<>>
  /\ dom_err = "none"
  /\ dom_db_ptr = "unset"
  /\ dom_db = no_domain_db
  /\ dom_written = "nothing"
  /\ dom_out = [query |-> <<>>, result |-> 0, called |-> FALSE]
  /\ dom_buffer = no_buffer
  /\ dom_copy = no_copy(no_domain_db)

hm_domain_compile(db_place, db_place_size, domains) ==
  /\ dom_err = "none"
  /\ \E r \in {domain_compile(db_place, db_place_size, domains)} :
         /\ dom_place' = [db_place |-> db_place, db_place_size |-> db_place_size]
         /\ dom_in' = domains
         /\ dom_err' = r.err
         /\ dom_db_ptr' = r.db_ptr
         /\ dom_db' = r.db
         /\ dom_written' = r.written
         /\ UNCHANGED <<dom_out, dom_buffer, dom_copy>>
  /\ UNCHANGED not_dom_vars

hm_domain_find(domain) ==
  /\ dom_err = "HM_SUCCESS"
  /\ dom_out' = [query |-> domain, result |-> domain_find(dom_db, domain),
                 called |-> TRUE]
  /\ UNCHANGED <<dom_place, dom_in, dom_err, dom_db_ptr, dom_db, dom_written,
                 dom_buffer, dom_copy>>
  /\ UNCHANGED not_dom_vars

hm_domain_serialize(buffer_size) ==
  /\ dom_err = "HM_SUCCESS"
  /\ dom_buffer.err = "none"
  /\ dom_buffer' = domain_serialize(<<>>, buffer_size, dom_db)
  /\ UNCHANGED <<dom_place, dom_in, dom_err, dom_db_ptr, dom_db, dom_written, dom_out,
                 dom_copy>>
  /\ UNCHANGED not_dom_vars

hm_domain_deserialize(db_place, db_place_size) ==
  /\ dom_buffer.err = "HM_SUCCESS"
  /\ dom_copy.err = "none"
  /\ dom_copy' = [db_place |-> db_place, db_place_size |-> db_place_size]
                   @@ domain_deserialize(db_place, db_place_size,
                                         dom_buffer.units, dom_buffer.size, 0)
  /\ UNCHANGED <<dom_place, dom_in, dom_err, dom_db_ptr, dom_db, dom_written, dom_out,
                 dom_buffer>>
  /\ UNCHANGED not_dom_vars

\* hm_domain_deserialize of the bytes "units" in a buffer of the size of the
\* serialized database
hm_domain_deserialize_buffer(db_place, db_place_size, units, beyond) ==
  /\ dom_buffer.err = "HM_SUCCESS"
  /\ dom_copy.err = "none"
  /\ dom_copy' = [db_place |-> db_place, db_place_size |-> db_place_size,
                  units |-> units]
                   @@ domain_deserialize(db_place, db_place_size, units,
                                         dom_buffer.size, beyond)
  /\ UNCHANGED <<dom_place, dom_in, dom_err, dom_db_ptr, dom_db, dom_written, dom_out,
                 dom_buffer>>
  /\ UNCHANGED not_dom_vars

DomainNext ==
  \/ \E db_place \in DomainPlaces, domains \in DomainLists :
       \E db_place_size \in DomainPlaceSizes(domains) :
         hm_domain_compile(db_place, db_place_size, domains)
  \/ \E domain \in DomainQueries : hm_domain_find(domain)

(***************************************************************************)
(* The specifications: one structure acts, the others stay as constructed. *)
(***************************************************************************)
CacheIdle == CacheInitWith(0, 0)

CacheSpecInit == CacheInit /\ SmInit /\ MapInit /\ SetInit /\ DomainInit

CacheSpec == CacheSpecInit /\ [][CacheNext]_vars

SmSpecInit == CacheIdle /\ SmInit /\ MapInit /\ SetInit /\ DomainInit

SmSpec == SmSpecInit /\ [][SmNext]_vars

U64SpecInit == CacheIdle /\ SmInit /\ MapInit /\ SetInit /\ DomainInit

U64Spec == U64SpecInit /\ [][U64Next]_vars

DomainSpecInit == CacheIdle /\ SmInit /\ MapInit /\ SetInit /\ DomainInit

DomainSpec == DomainSpecInit /\ [][DomainNext]_vars

\* Calibration: the domain set with, among the lists, one whose calibration
\* is exhausted
CalibNext ==
  \/ DomainNext
  \/ \E db_place \in DomainPlaces :
       hm_domain_compile(db_place, hm_domain_db_place_size(CollidingDomains),
                         CollidingDomains)

CalibSpec == DomainSpecInit /\ [][CalibNext]_vars

\* Serialization: one of the four static structures is compiled, queried,
\* serialized and deserialized in a behaviour; the structures share no state.
SerSmInputLists ==
  { <<>>,
    <<[ip |-> IP(128, 0, 0, 0), cidr_prefix |-> 1, value |-> 1]>>,
    <<[ip |-> IP(0, 0, 0, 0), cidr_prefix |-> 1, value |-> 1],
      [ip |-> IP(255, 255, 0, 0), cidr_prefix |-> 16, value |-> 2]>>,
    <<[ip |-> IP(128, 0, 0, 0), cidr_prefix |-> 1, value |-> 1],
      [ip |-> IP(192, 0, 0, 0), cidr_prefix |-> 2, value |-> 2]>>,
    <<[ip |-> IP(0, 0, 0, 0), cidr_prefix |-> 1, value |-> 2],
      [ip |-> IP(128, 0, 0, 1), cidr_prefix |-> 1, value |-> 1]>> }

\* sizes of a buffer around the size "need": too small, exact, larger
SizesAround(need, step) == {need - step, need, need + step}

SerPlaces == {0, 4}

SerSmNext ==
  \/ \E db_place \in SerPlaces, inputs \in SerSmInputLists :
       hm_sm_compile(db_place, hm_sm_db_place_size(Len(inputs)), inputs)
  \/ \E ip0 \in QueryIPs : hm_sm_find(ip0)
  \/ \E buffer_size \in SizesAround(hm_sm_serialized_size(sm_db), 4) :
       hm_sm_serialize(buffer_size, 7)
  \/ sm_buffer.err = "HM_SUCCESS" /\ \E db_place \in SerPlaces :
       \E db_place_size \in SizesAround(
            sm_db_place_size_from_serialized(sm_buffer.units,
                                             sm_buffer.size).db_place_size, 8) :
         hm_sm_deserialize(db_place, db_place_size)

SerMapNext ==
  \/ \E db_place \in SerPlaces, keys \in U64KeyLists :
       \E values \in U64ValueLists(keys) :
         hm_u64map_compile(db_place, hm_u64map_db_place_size(Len(keys)),
                           keys, values)
  \/ \E key \in U64Queries : hm_u64map_find(key)
  \/ \E buffer_size \in SizesAround(hm_u64map_serialized_size(map_db), 8) :
       hm_u64map_serialize(buffer_size, 7)
  \/ map_buffer.err = "HM_SUCCESS" /\ \E db_place \in SerPlaces :
       \E db_place_size \in SizesAround(
            u64map_db_place_size_from_serialized(map_buffer.units,
                                                 map_buffer.size).db_place_size,
            8) :
         hm_u64map_deserialize(db_place, db_place_size)

SerSetNext ==
  \/ \E db_place \in SerPlaces, keys \in U64KeyLists :
       hm_u64_compile(db_place, hm_u64_db_place_size(Len(keys)), keys)
  \/ \E key \in U64Queries : hm_u64_find(key)
  \/ \E buffer_size \in SizesAround(hm_u64_serialized_size(set_db), 8) :
       hm_u64_serialize(buffer_size, 7)
  \/ set_buffer.err = "HM_SUCCESS" /\ \E db_place \in SerPlaces :
       \E db_place_size \in SizesAround(
            u64_db_place_size_from_serialized(set_buffer.units,
                                              set_buffer.size).db_place_size,
            8) :
         hm_u64_deserialize(db_place, db_place_size)

SerDomainNext ==
  \/ \E db_place \in SerPlaces, domains \in DomainLists :
       hm_domain_compile(db_place, hm_domain_db_place_size(domains), domains)
  \/ \E domain \in DomainQueries : hm_domain_find(domain)
  \/ \E buffer_size \in SizesAround(hm_domain_serialized_size(dom_db), 1) :
       hm_domain_serialize(buffer_size)
  \/ dom_buffer.err = "HM_SUCCESS" /\ \E db_place \in SerPlaces :
       \E db_place_size \in SizesAround(
            domain_db_place_size_from_serialized(dom_buffer.units,
                                                 dom_buffer.size).db_place_size,
            1) :
         hm_domain_deserialize(db_place, db_place_size)

SerNext ==
  \/ map_err = "none" /\ set_err = "none" /\ dom_err = "none" /\ SerSmNext
  \/ sm_err = "none" /\ set_err = "none" /\ dom_err = "none" /\ SerMapNext
  \/ sm_err = "none" /\ map_err = "none" /\ dom_err = "none" /\ SerSetNext
  \/ sm_err = "none" /\ map_err = "none" /\ set_err = "none" /\ SerDomainNext

SerSpecInit == CacheIdle /\ SmInit /\ MapInit /\ SetInit /\ DomainInit

SerSpec == SerSpecInit /\ [][SerNext]_vars

(***************************************************************************)
(* Properties of the domain set.                                           *)
(***************************************************************************)
has_dot(s) == \E j \in 1..Len(s) : s[j] = chr_dot

\* C2: after a successful hm_domain_compile of patterns that all contain a
\* dot, hm_domain_find gives 1 for every pattern p of the list and for every
\* query of one or more labels, a dot and p, whatever else is in the list.
DomainFindsPatterns ==
  (/\ dom_err = "HM_SUCCESS"
   /\ \A i \in 1..Len(dom_in) : has_dot(cut_trailing_dots(dom_in[i])))
    => /\ \A i \in 1..Len(dom_in) :
            /\ domain_find(dom_db, dom_in[i]) = 1
            /\ \A pre \in QueryPrefixes :
                 domain_find(dom_db, join_labels(pre) \o <<chr_dot>> \o dom_in[i]) = 1
       /\ (/\ dom_out.called
           /\ \E i \in 1..Len(dom_in) :
                is_subdomain(domain_to_lower(cut_trailing_dots(dom_out.query)).dst,
                             domain_to_lower(cut_trailing_dots(dom_in[i])).dst))
            => dom_out.result = 1

\* the query or the pattern as the set sees it: the trailing dots off, lower case
normal(s) == domain_to_lower(cut_trailing_dots(s)).dst

valid_query(s) ==
  /\ Len(cut_trailing_dots(s)) \in 1..MAX_DOMAIN_LEN
  /\ domain_to_lower(cut_trailing_dots(s)).ok

\* q is p or ends with a dot followed by p
ends_with_pattern(q, p) ==
  \/ q = p
  \/ /\ Len(q) > Len(p)
     /\ SubSeq(q, Len(q) - Len(p), Len(q)) = <<chr_dot>> \o p

matches_input(q) ==
  \E i \in 1..Len(dom_in) : ends_with_pattern(normal(q), normal(dom_in[i]))

\* the slots of the record of the bucket of q's last two labels whose tag is
\* the tag of these labels
colliding_slots(q) ==
  LET str == normal(q)
      suffix == cut_two_last_domain_labels_fast(str)
      h == hash64_span_ci(SubSeq(str, suffix + 1, Len(str)),
                          seed_word(dom_db.hash_seed))
      rec == dom_db.domains_table[fastmod_u32(low32(h), dom_db.buckets) + 1]
  IN  { rec.domains_blob_offset + rec.domains_offsets[i] * D :
          i \in { j \in 1..rec.used_slots : rec.domains_hashes[j] = tag16(h) } }

\* C11: after a successful hm_domain_compile, hm_domain_find gives 0 for
\* every valid query that, lower case and without its trailing dots, is no
\* input pattern and does not end with a dot followed by an input pattern,
\* also when its tag is the tag of a stored string in its bucket and when
\* that stored string is longer than the query.
DomainNoFalsePositives ==
  dom_err = "HM_SUCCESS"
    => /\ \A q \in DomainQueries :
            (valid_query(q) /\ ~matches_input(q)) => domain_find(dom_db, q) = 0
       /\ (dom_out.called /\ valid_query(dom_out.query)
              /\ ~matches_input(dom_out.query))
            => dom_out.result = 0

\* hm_domain_find returned 0 for "qy.co" while "qy.cow" is stored in its bucket
\* under the same tag, and for "il.com" while "ex.com" is stored under its tag
DomainNoFalsePositivesWitness ==
  /\ dom_err = "HM_SUCCESS"
  /\ dom_out.called /\ dom_out.query = qy_co /\ dom_out.result = 0
  /\ ~matches_input(qy_co) /\ ~matches_input(il_com)
  /\ \E cand \in colliding_slots(qy_co) :
       SubSeq(dom_db.domains_blob, cand + 1, cand + Len(qy_cow)) = qy_cow
  /\ \E cand \in colliding_slots(il_com) :
       SubSeq(dom_db.domains_blob, cand + 1, cand + Len(ex_com) + 1)
         = ex_com \o <<0>>

\* C12: the list kept by prune_subdomains_revchar (the list that
\* preprocess_domains_views leaves to hm_domain_compile) has no duplicates and
\* no two domains a # b such that a ends with a dot followed by b.
DomainPrunedNoSubdomains ==
  dom_err # "none"
    => \A pre \in {preprocess_domains_views(dom_in)} :
         pre.ok => \A i, j \in 1..Len(pre.domains_views) :
                     i # j => ~ends_with_pattern(pre.domains_views[i],
                                                 pre.domains_views[j])

(***************************************************************************)
(* Properties of the 64-bit map and set.                                   *)
(***************************************************************************)
keys_of(keys) == {keys[i] : i \in 1..Len(keys)}

table_keys(db) == {db.hash_table[c].key : c \in 1..Len(db.hash_table)}

\* C9: after a successful hm_u64map_compile, hm_u64map_find of every key
\* gives its value, and after a successful hm_u64_compile hm_u64_find of
\* every key is true, whatever the number of calibration retries, after the
\* filling of the zero quartet and the sort of the quartets.
U64FindsCompiledKeys ==
  /\ map_err = "HM_SUCCESS" =>
       /\ \A i \in 1..Len(map_in.keys) :
            u64map_find(map_db, map_in.keys[i]) = map_in.values[i]
       /\ \A i \in 1..Len(map_in.keys) :
            (map_out.called /\ map_out.key = map_in.keys[i])
              => map_out.value = map_in.values[i]
  /\ set_err = "HM_SUCCESS" =>
       /\ \A i \in 1..Len(set_in) : u64_find(set_db, set_in[i])
       /\ (set_out.called /\ set_out.key \in keys_of(set_in)) => set_out.found

\* the map was built after one retry and the sort moved the key found to the
\* end of the zero quartet, behind the fillers; the set was built after two
\* retries
U64FindsCompiledKeysWitness ==
  /\ map_err = "HM_SUCCESS"
  /\ map_db.retries = 1
  /\ map_out.called
  /\ map_out.key \in keys_of(map_in.keys)
  /\ map_out.value = map_out.key + 1000
  /\ map_db.hash_table[4].key = map_out.key
  /\ map_db.hash_table[1].key \notin keys_of(map_in.keys)
  /\ set_err = "HM_SUCCESS"
  /\ set_db.retries = 2
  /\ set_out.called
  /\ set_out.found

\* C10: for every key that is not among the compiled keys, the key 0 and
\* the filler keys of the zero quartet included, hm_u64map_find gives 0 and
\* hm_u64_find gives false.
U64NoFalsePositives ==
  /\ map_err = "HM_SUCCESS" =>
       /\ \A k \in (U64Queries \cup table_keys(map_db)) \ keys_of(map_in.keys) :
            u64map_find(map_db, k) = 0
       /\ (map_out.called /\ map_out.key \notin keys_of(map_in.keys))
            => map_out.value = 0
  /\ set_err = "HM_SUCCESS" =>
       /\ \A k \in (U64Queries \cup table_keys(set_db)) \ keys_of(set_in) :
            ~u64_find(set_db, k)
       /\ (set_out.called /\ set_out.key \notin keys_of(set_in))
            => ~set_out.found

\* hm_u64_find of a filler key stored in the zero quartet gave false, and
\* hm_u64map_find of the key 0 gave 0
U64NoFalsePositivesWitness ==
  /\ set_err = "HM_SUCCESS"
  /\ set_out.called
  /\ ~set_out.found
  /\ set_out.key \in table_keys(set_db)
  /\ set_out.key \notin keys_of(set_in)
  /\ map_err = "HM_SUCCESS"
  /\ map_out.called
  /\ map_out.key = 0
  /\ map_out.value = 0

(***************************************************************************)
(* Properties of the serialization.                                        *)
(***************************************************************************)
\* the call of serialize recorded in "buffer" had room for size bytes
serialized_into(buffer, size) == buffer.err # "none" /\ buffer.size >= size

\* the call of deserialize recorded in "copy" had the place that
\* place_size_from_serialized ("need") asks for
deserialized_into(copy, need) ==
  /\ copy.err # "none"
  /\ need.err = "HM_SUCCESS"
  /\ copy.db_place_size >= need.db_place_size

SmRoundTrip ==
  /\ serialized_into(sm_buffer, hm_sm_serialized_size(sm_db))
       => sm_buffer.err = "HM_SUCCESS"
  /\ (/\ sm_buffer.err = "HM_SUCCESS"
      /\ deserialized_into(sm_copy, sm_db_place_size_from_serialized(
                                      sm_buffer.units, sm_buffer.size)))
       => /\ sm_copy.err = "HM_SUCCESS"
          /\ \A ip0 \in QueryIPs : sm_find(sm_copy.db, ip0) = sm_find(sm_db, ip0)

MapRoundTrip ==
  /\ serialized_into(map_buffer, hm_u64map_serialized_size(map_db))
       => map_buffer.err = "HM_SUCCESS"
  /\ (/\ map_buffer.err = "HM_SUCCESS"
      /\ deserialized_into(map_copy, u64map_db_place_size_from_serialized(
                                       map_buffer.units, map_buffer.size)))
       => /\ map_copy.err = "HM_SUCCESS"
          /\ \A key \in U64Queries \cup keys_of(map_in.keys) :
               u64map_find(map_copy.db, key) = u64map_find(map_db, key)

SetRoundTrip ==
  /\ serialized_into(set_buffer, hm_u64_serialized_size(set_db))
       => set_buffer.err = "HM_SUCCESS"
  /\ (/\ set_buffer.err = "HM_SUCCESS"
      /\ deserialized_into(set_copy, u64_db_place_size_from_serialized(
                                       set_buffer.units, set_buffer.size)))
       => /\ set_copy.err = "HM_SUCCESS"
          /\ \A key \in U64Queries \cup keys_of(set_in) :
               u64_find(set_copy.db, key) = u64_find(set_db, key)

DomainRoundTrip ==
  /\ serialized_into(dom_buffer, hm_domain_serialized_size(dom_db))
       => dom_buffer.err = "HM_SUCCESS"
  /\ (/\ dom_buffer.err = "HM_SUCCESS"
      /\ deserialized_into(dom_copy, domain_db_place_size_from_serialized(
                                       dom_buffer.units, dom_buffer.size)))
       => /\ dom_copy.err = "HM_SUCCESS"
          /\ \A q \in DomainQueries \cup {dom_in[i] : i \in 1..Len(dom_in)} :
               domain_find(dom_copy.db, q) = domain_find(dom_db, q)

\* C13: for the prefix map, the 64-bit map, the 64-bit set and the domain
\* set, serializing a compiled handle into a buffer of serialized_size bytes
\* succeeds, deserializing that buffer into a place of the size given by
\* place_size_from_serialized succeeds, and the new handle gives the result
\* of the original for every query.
SerializationRoundTrip ==
  SmRoundTrip /\ MapRoundTrip /\ SetRoundTrip /\ DomainRoundTrip

\* a 64-bit map whose compile changed the factors and filled the zero
\* quartet was serialized into a buffer of the exact size, over other
\* content, and read back into a place of the exact size at an address that
\* is not aligned; the copy finds a compiled key
SerializationRoundTripWitness ==
  /\ map_err = "HM_SUCCESS" /\ map_db.retries > 0
  /\ map_buffer.err = "HM_SUCCESS"
  /\ map_buffer.size = hm_u64map_serialized_size(map_db)
  /\ map_buffer.units[4] = 7
  /\ map_copy.err = "HM_SUCCESS"
  /\ map_copy.db_place_size = u64map_get_db_place(get_buckets(map_db))
  /\ \E key \in keys_of(map_in.keys) :
       /\ u64map_find(map_db, key) # 0
       /\ u64map_find(map_copy.db, key) = u64map_find(map_db, key)

(***************************************************************************)
(* Properties of the prefix map.                                           *)
(***************************************************************************)
\* the covering prefix of an ip with the largest cidr gives the value
covers(e, ip) == u32_shr(ip, 32 - e.cidr_prefix) = u32_shr(e.ip, 32 - e.cidr_prefix)

longest_prefix_value(inputs, ip) ==
  LET covering == {i \in 1..Len(inputs) : covers(inputs[i], ip)}
  IN  IF covering = {} THEN HM_NO_VALUE
      ELSE inputs[CHOOSE i \in covering :
                    \A j \in covering :
                      inputs[j].cidr_prefix <= inputs[i].cidr_prefix].value

distinct_prefixes(inputs) ==
  \A i, j \in 1..Len(inputs) :
    (inputs[i].ip = inputs[j].ip /\ inputs[i].cidr_prefix = inputs[j].cidr_prefix)
      => i = j

\* C1: on the map hm_sm_compile builds from valid prefixes, no two with the
\* same ip and cidr, hm_sm_find returns for every ip the value of the
\* covering prefix with the largest cidr, and HM_NO_VALUE exactly when no
\* prefix covers the ip.
SmLongestPrefixMatch ==
  (sm_err = "HM_SUCCESS" /\ sm_out.called /\ distinct_prefixes(sm_inputs))
    => sm_out.value = longest_prefix_value(sm_inputs, sm_out.ip)

(***************************************************************************)
(* Properties of the cache.                                                *)
(***************************************************************************)
InList(ls, list, i) == \E k \in 1..Len(forward(ls, list)) : forward(ls, list)[k] = i

InCache(ip) ==
  \E k \in 1..Len(hm_cache_dump(list_storage, nodes)) :
    hm_cache_dump(list_storage, nodes)[k] = ip

EvictionReported ==
  [][\A ip \in IPs, value \in Values :
       hm_cache_add(ip, value) =>
         /\ cache_out'.evicted
              = (~InCache(ip) /\ free_nodes.head_index = NO_INDEX)
         /\ cache_out'.evicted =>
              /\ cache_out'.evicted_ip = list_storage[nodes.tail_index].ip
              /\ cache_out'.evicted_value = list_storage[nodes.tail_index].value
         /\ (cache_out.op = "remove" /\ cache_out.existed /\ ~InCache(ip)) =>
              ~cache_out'.evicted]_vars

\* an add has evicted the older of two different keys
EvictionReportedWitness ==
  /\ cache_out.op = "add"
  /\ cache_out.evicted
  /\ cache_out.evicted_value = 1
  /\ hm_cache_dump(list_storage, nodes)[1] = cache_out.ip
  /\ ~InCache(cache_out.evicted_ip)

GoneNotResolvable ==
  \A ip \in gone :
    /\ table_lookup(hash_table, list_storage, ip) = NO_INDEX
    /\ ~cache_has(Cache, ip).out.found
    /\ \A value \in Values : ~cache_add(Cache, ip, value).out.existed

\* has returned false for a removed key whose ip is still stored in an
\* element of the free list
GoneNotResolvableWitness ==
  /\ cache_out.op = "has"
  /\ ~cache_out.found
  /\ cache_out.ip \in gone
  /\ \E i \in Elements :
       /\ InList(list_storage, free_nodes, i)
       /\ list_storage[i].ip = cache_out.ip
  /\ nodes.head_index # NO_INDEX

\* C7: every element index is in exactly one of the LRU list and the free
\* list, and the sizes of the two lists sum to capacity, counted forward
\* from the heads and backward from the tails.
ListsPartitionElements ==
  /\ \A i \in Elements :
       InList(list_storage, nodes, i) # InList(list_storage, free_nodes, i)
  /\ Len(forward(list_storage, nodes)) + Len(forward(list_storage, free_nodes))
       = capacity
  /\ Len(backward(list_storage, nodes)) + Len(backward(list_storage, free_nodes))
       = capacity
  /\ Len(forward(list_storage, nodes)) = Len(backward(list_storage, nodes))
  /\ Len(forward(list_storage, free_nodes))
       = Len(backward(list_storage, free_nodes))

\* a remove has moved an element back to the free list, both lists non-empty
ListsPartitionElementsWitness ==
  /\ cache_out.op = "remove"
  /\ cache_out.existed
  /\ nodes.head_index # NO_INDEX
  /\ free_nodes.head_index # NO_INDEX

\* the checks of hm_cache_dump on every element's links
ls_prev_ok(e) ==
  list_storage[e].prev_index # NO_INDEX =>
    list_storage[list_storage[e].prev_index].next_index = e

ls_next_ok(e) ==
  list_storage[e].next_index # NO_INDEX =>
    list_storage[list_storage[e].next_index].prev_index = e

WellFormed(ls, list) ==
  /\ (list.head_index = NO_INDEX) = (list.tail_index = NO_INDEX)
  /\ \A k \in 1..Len(forward(ls, list)) :
       LET e == forward(ls, list)[k]
       IN  /\ (ls[e].prev_index = NO_INDEX) = (e = list.head_index)
           /\ (ls[e].next_index = NO_INDEX) = (e = list.tail_index)
           /\ ls[e].prev_index # NO_INDEX => ls[ls[e].prev_index].next_index = e
           /\ ls[e].next_index # NO_INDEX => ls[ls[e].next_index].prev_index = e

\* C8: both lists are well-formed doubly linked lists: prev is NO_INDEX
\* exactly at the head, next is NO_INDEX exactly at the tail, the links of
\* neighbours are symmetric, and head_index is NO_INDEX iff tail_index is.
ListsWellFormed ==
  /\ WellFormed(list_storage, nodes)
  /\ WellFormed(list_storage, free_nodes)
  /\ \A e \in Elements :
       /\ ls_prev_ok(e)
       /\ ls_next_ok(e)

\* the cache is full after an eviction: the free list is empty and the LRU
\* list links all the elements
ListsWellFormedWitness ==
  /\ cache_out.op = "add"
  /\ cache_out.evicted
  /\ free_nodes.head_index = NO_INDEX
  /\ free_nodes.tail_index = NO_INDEX
  /\ Len(forward(list_storage, nodes)) = capacity


\* The builds: one structure is built in a behaviour, at aligned and
\* unaligned addresses, in buffers of the reported size and of smaller sizes.
BuildPlaces == {0, 1, 7, 8, 63, 64}

BuildSizes(need, alignment) ==
  {0, 1, alignment - 1, alignment, need - alignment - 1, need - alignment,
   need - 1, need}

\* capacities and speeds given to hm_cache_init: the capacity of the cache,
\* powers of two, 0, 1 and numbers that are no powers of two; the speeds
\* 1..5 and the speeds next to them
MaxBuildCapacityLog2 == 4
BuildCapacities ==
  {0, 1, 3, 5, 6, 12, capacity} \cup {Pow2(n) : n \in 1..MaxBuildCapacityLog2}
BuildSpeeds == {-1, 0, 6, Speed} \cup 1..5

\* sizes around the place size of the capacity and speed of the call, or of
\* the cache of the model when the call has no place size
BuildCacheSizes(cap, speed) ==
  LET needed == hm_cache_place_size(cap, speed)
  IN  BuildSizes(IF needed.err = "HM_SUCCESS" THEN needed.cache_place_size
                 ELSE hm_cache_place_size(capacity, Speed).cache_place_size,
                 cache_alignment)

BuildCacheNext ==
  \E cache_place \in BuildPlaces, cap \in BuildCapacities,
     speed \in BuildSpeeds :
    \E cache_place_size \in BuildCacheSizes(cap, speed) :
      hm_cache_init_call(cache_place, cache_place_size, cap, speed, 7, 1)

BuildSmNext ==
  \/ \E db_place \in BuildPlaces, inputs \in SerSmInputLists :
       \E db_place_size \in
            BuildSizes(hm_sm_db_place_size(Len(inputs)), sm_alignment)
              \cup {sm_alignment + sizeof_hm_sm_database_t} :
         hm_sm_compile(db_place, db_place_size, inputs)
  \/ hm_sm_serialize(hm_sm_serialized_size(sm_db), 7)
  \/ sm_buffer.err = "HM_SUCCESS" /\ \E db_place \in BuildPlaces :
       hm_sm_deserialize(db_place,
                         sm_db_place_size_from_serialized(
                           sm_buffer.units, sm_buffer.size).db_place_size)

\* sizes of a buffer that holds a part of the serialized bytes or all of them
BuildBufferSizes(serialized_size) ==
  {4 * 8, serialized_size - 16, serialized_size - 9, serialized_size - 8,
   serialized_size - 1, serialized_size}

BuildMapNext ==
  \/ \E db_place \in BuildPlaces, keys \in U64KeyLists :
       \E values \in U64ValueLists(keys),
          db_place_size \in
            BuildSizes(hm_u64map_db_place_size(Len(keys)), u64_alignment) :
         hm_u64map_compile(db_place, db_place_size, keys, values)
  \/ hm_u64map_serialize(hm_u64map_serialized_size(map_db), 7)
  \/ \E buffer_size \in BuildBufferSizes(hm_u64map_serialized_size(map_db)),
        beyond \in {0, 99} :
       hm_u64map_deserialize_sized(0, u64map_get_db_place(get_buckets(map_db)),
                                   buffer_size, beyond)

BuildSetNext ==
  \E db_place \in BuildPlaces, keys \in U64KeyLists :
    \E db_place_size \in
         BuildSizes(hm_u64_db_place_size(Len(keys)), u64set_alignment) :
      hm_u64_compile(db_place, db_place_size, keys)

\* a record of a buffer as it was written and with other bytes: one slot more
\* than the record has, the slots' offsets as they are or 0; a first slot far
\* from the base; a base after the blob
OtherRecords(rec, domains_blob_size) ==
  { rec,
    [rec EXCEPT !.used_slots = D + 1],
    [rec EXCEPT !.used_slots = D + 1, !.domains_offsets = [i \in 1..D |-> 0]],
    [rec EXCEPT !.used_slots = IF @ = 0 THEN 1 ELSE @,
                !.domains_offsets[1] = 255],
    [rec EXCEPT !.domains_blob_offset = domains_blob_size + D] }

\* the serialized bytes with one record of the two tables replaced
OtherBuffers(units) ==
  UNION { { [units EXCEPT ![r] = rec] :
              rec \in OtherRecords(units[r], units[2].domains_blob_size) } :
          r \in 3..(2 + units[2].popular_records + units[2].buckets) }

BuildDomainNext ==
  \/ \E db_place \in BuildPlaces, domains \in DomainLists :
       hm_domain_compile(db_place, hm_domain_db_place_size(domains), domains)
  \/ hm_domain_serialize(hm_domain_serialized_size(dom_db))
  \/ dom_buffer.err = "HM_SUCCESS"
       /\ \E units \in OtherBuffers(dom_buffer.units), beyond \in {0, 255} :
       hm_domain_deserialize_buffer(
         0, domain_db_place_size_from_serialized(dom_buffer.units,
                                                 dom_buffer.size).db_place_size,
         units, beyond)

BuildNext ==
  \/ /\ sm_err = "none" /\ map_err = "none" /\ set_err = "none"
     /\ dom_err = "none"
     /\ BuildCacheNext
  \/ /\ cache_build.err = "none" /\ map_err = "none" /\ set_err = "none"
     /\ dom_err = "none"
     /\ BuildSmNext
  \/ /\ cache_build.err = "none" /\ sm_err = "none" /\ set_err = "none"
     /\ dom_err = "none"
     /\ BuildMapNext
  \/ /\ cache_build.err = "none" /\ sm_err = "none" /\ map_err = "none"
     /\ dom_err = "none"
     /\ BuildSetNext
  \/ /\ cache_build.err = "none" /\ sm_err = "none" /\ map_err = "none"
     /\ set_err = "none"
     /\ BuildDomainNext

BuildSpecInit == CacheIdle /\ SmInit /\ MapInit /\ SetInit /\ DomainInit

BuildSpec == BuildSpecInit /\ [][BuildNext]_vars

\* the compile of the 64-bit map and set key by key.  The call does not wait
\* for anything: a turn of the loop that is due is taken
LoopSpecInit == CacheIdle /\ SmInit /\ MapInit /\ SetInit /\ DomainInit

LoopSpec == LoopSpecInit /\ [][LoopNext]_vars /\ WF_vars(compile_put_key)

(***************************************************************************)
(* Properties of the builds: error returns, sizes and alignment            *)
(***************************************************************************)

failed(err) == err \notin {"none", "HM_SUCCESS"}

SmNoPartialBuild ==
  failed(sm_err) => sm_db_ptr = "unset" /\ sm_db = no_db

MapNoPartialBuild ==
  failed(map_err) => map_db_ptr = "unset" /\ map_db = no_u64_db

SetNoPartialBuild ==
  failed(set_err) => set_db_ptr = "unset" /\ set_db = no_u64_db

DomainNoPartialBuild ==
  failed(dom_err) => dom_db_ptr = "unset" /\ dom_written = "nothing"

\* C14: whenever hm_sm_compile, hm_u64map_compile, hm_u64_compile or
\* hm_domain_compile has returned an error, *db_ptr is as before the call and
\* no byte of the buffer has been written.
NoPartialBuild ==
  /\ SmNoPartialBuild
  /\ MapNoPartialBuild
  /\ SetNoPartialBuild
  /\ DomainNoPartialBuild


has_zero(seq) == \E i \in 1..Len(seq) : seq[i] = 0

has_duplicate(keys) == \E i, j \in 1..Len(keys) : i # j /\ keys[i] = keys[j]

\* the size left after the alignment step passes the size check of the compile
map_place_fits ==
  ~size_less(map_place.db_place_size
               - (u64_align64(map_place.db_place) - map_place.db_place),
             hm_u64map_db_place_size(Len(map_in.keys)) - u64_alignment)

set_place_fits ==
  ~size_less(set_place.db_place_size
               - (u64set_align64(set_place.db_place) - set_place.db_place),
             hm_u64_db_place_size(Len(set_in)) - u64set_alignment)

calibration_exhausted ==
  /\ Len(dom_in) > 0
  /\ \E pre \in {preprocess_domains_views(dom_in)} :
       /\ pre.ok
       /\ \A i \in 1..Len(pre.domains_views) :
            \E j \in 1..Len(pre.domains_views[i]) :
              pre.domains_views[i][j] = chr_dot
       /\ \E popular_suffixes \in {find_popular_suffixes(pre.domains_views)} :
            /\ Len(popular_suffixes) <= MAX_POPULAR_SUFFIXES
            /\ \E calib \in {calibrate_and_build_preview(pre.domains_views,
                                                         popular_suffixes)} :
                 ~calib.ok

\* C16: when the calibration has found no number of buckets and seed without
\* an overflow in its CALIB_GROW_STEPS x CALIB_SEED_TRIES tries,
\* hm_domain_compile returns HM_ERROR_FAILED_TO_CALIBRATE.
CalibrationFailureReported ==
  (dom_err # "none" /\ calibration_exhausted)
    => dom_err = "HM_ERROR_FAILED_TO_CALIBRATE"


(***************************************************************************)
(* The place sizes.                                                        *)
(***************************************************************************)
\* the buffer of the last build is of the size the place-size function of
\* the structure reports for the input of the build
cache_place_exact ==
  LET needed == hm_cache_place_size(cache_build.capacity, cache_build.speed)
  IN  /\ cache_build.err # "none"
      /\ needed.err = "HM_SUCCESS"
      /\ cache_build.cache_place_size = needed.cache_place_size

sm_place_exact ==
  /\ sm_err # "none"
  /\ sm_place.db_place_size = hm_sm_db_place_size(Len(sm_inputs))

map_place_exact ==
  /\ map_err # "none"
  /\ map_place.db_place_size = hm_u64map_db_place_size(Len(map_in.keys))

set_place_exact ==
  /\ set_err # "none"
  /\ set_place.db_place_size = hm_u64_db_place_size(Len(set_in))

dom_place_exact ==
  /\ dom_err # "none"
  /\ dom_place.db_place_size = hm_domain_db_place_size(dom_in)

\* the bytes left after the aligned header of the domain set hold the tables
\* and the blob of the set for the number of buckets of every growth step
DomainPlaceCoversGrowth ==
  LET views == preprocess_domains_views(dom_in).domains_views
      place_left ==
        dom_place.db_place_size
          - (dom_align(dom_place.db_place, 64)
               + round_up64(sizeof_hm_domain_database_t) - dom_place.db_place)
  IN  \A grow \in 0..(CALIB_GROW_STEPS - 1) :
        place_left >=
          grown_buckets((Len(views) \div D) + 1, CALIB_GROW_STEPS - grow)
              * sizeof_domains_table_record_t
            + dom_db.popular_records * sizeof_domains_table_record_t
            + dom_db.domains_blob_size

\* C17: a build in a buffer of exactly the size its place-size function
\* reports, at any address, does not return HM_ERROR_SMALL_PLACE; the place
\* of a domain set is enough for the buckets of every growth step of the
\* calibration
SizingIsSufficient ==
  /\ cache_place_exact => cache_build.err # "HM_ERROR_SMALL_PLACE"
  /\ sm_place_exact => sm_err # "HM_ERROR_SMALL_PLACE"
  /\ map_place_exact => map_err # "HM_ERROR_SMALL_PLACE"
  /\ set_place_exact => set_err # "HM_ERROR_SMALL_PLACE"
  /\ dom_place_exact => dom_err # "HM_ERROR_SMALL_PLACE"
  /\ (dom_place_exact /\ dom_err = "HM_SUCCESS") => DomainPlaceCoversGrowth

\* a cache is built in a buffer of the reported size of which the alignment
\* takes all the bytes added for it
SizingIsSufficientWitness ==
  /\ cache_place_exact
  /\ cache_build.err = "HM_SUCCESS"
  /\ align8(cache_build.cache_place) - cache_build.cache_place
       = cache_alignment


\* the bytes a build needs from db_place on: the bytes up to the alignment
\* boundary the base is moved to, and the bytes of the structure
cache_bytes_needed ==
  (align8(cache_build.cache_place) - cache_build.cache_place)
    + hm_cache_place_size(cache_build.capacity,
                          cache_build.speed).cache_place_size
    - cache_alignment

\* the inputs of the last hm_sm_compile are valid: in a buffer of the
\* reported size the compile succeeds
sm_inputs_valid ==
  sm_compile(0, hm_sm_db_place_size(Len(sm_inputs)), sm_inputs).err
    = "HM_SUCCESS"

sm_bytes_needed ==
  (sm_align8(sm_place.db_place) - sm_place.db_place)
    + list_size_to_db_place_size(
        sm_compile(0, hm_sm_db_place_size(Len(sm_inputs)),
                   sm_inputs).db.list_size)

map_inputs_valid ==
  /\ map_in.keys # <<>>
  /\ ~ has_zero(map_in.keys)
  /\ ~ has_zero(map_in.values)
  /\ ~ has_duplicate(map_in.keys)

map_bytes_needed ==
  (u64_align64(map_place.db_place) - map_place.db_place)
    + hm_u64map_db_place_size(Len(map_in.keys)) - u64_alignment

\* C18: hm_cache_init, hm_sm_compile and hm_u64map_compile, called on valid
\* input with a size below the bytes the build needs from db_place on
\* (sizes below the alignment adjustment included), return
\* HM_ERROR_SMALL_PLACE and write nothing
SmallPlaceRejected ==
  /\ ( /\ cache_build.err # "none"
       /\ hm_cache_place_size(cache_build.capacity,
                              cache_build.speed).err = "HM_SUCCESS"
       /\ cache_build.cache_place_size < cache_bytes_needed )
       => /\ cache_build.err = "HM_ERROR_SMALL_PLACE"
          /\ cache_build.cache_ptr = "unset"
  /\ ( /\ sm_err # "none"
       /\ sm_inputs_valid
       /\ sm_place.db_place_size < sm_bytes_needed )
       => /\ sm_err = "HM_ERROR_SMALL_PLACE"
          /\ sm_db_ptr = "unset"
  /\ ( /\ map_err # "none"
       /\ map_inputs_valid
       /\ map_place.db_place_size < map_bytes_needed )
       => /\ map_err = "HM_ERROR_SMALL_PLACE"
          /\ map_db_ptr = "unset"


\* C19: hm_cache_init, hm_sm_compile and hm_sm_deserialize called with an
\* address that is not 8-byte aligned return HM_ERROR_BAD_ALIGNMENT
AlignmentChecked ==
  /\ (cache_build.err # "none"
        /\ cache_build.cache_place % cache_alignment # 0)
       => cache_build.err = "HM_ERROR_BAD_ALIGNMENT"
  /\ (sm_err # "none" /\ sm_place.db_place % sm_alignment # 0)
       => sm_err = "HM_ERROR_BAD_ALIGNMENT"
  /\ (sm_copy.err # "none" /\ sm_copy.db_place % sm_alignment # 0)
       => sm_copy.err = "HM_ERROR_BAD_ALIGNMENT"


(***************************************************************************)
(* The cache and the keys it does not hold.                                *)
(***************************************************************************)
\* C20: hm_cache_remove of an ip that is not in the list sets existed to
\* false, hm_cache_has of such an ip returns false, and both leave the
\* elements, the two lists and the hash table as they were
AbsentKeysNoOp ==
  [][\A ip \in IPs :
       /\ (hm_cache_remove(ip) /\ ~InCache(ip)) =>
            /\ ~cache_out'.existed
            /\ UNCHANGED <<list_storage, nodes, free_nodes, hash_table>>
       /\ (hm_cache_has(ip) /\ ~InCache(ip)) =>
            /\ ~cache_out'.found
            /\ UNCHANGED <<list_storage, nodes, free_nodes, hash_table>>]_vars

\* the cache is full and a key that was removed or evicted before, whose
\* bucket holds another key, has been looked for and not found
AbsentKeysNoOpWitness ==
  /\ cache_out.op \in {"remove", "has"}
  /\ cache_out.ip \in gone
  /\ ~InCache(cache_out.ip)
  /\ free_nodes.head_index = NO_INDEX
  /\ hash_table[start_bucket(cache_out.ip)] # NO_INDEX


(***************************************************************************)
(* The arguments of hm_cache_init.                                         *)
(***************************************************************************)
RECURSIVE halves_to_one(_)
halves_to_one(n) ==
  IF n = 1 THEN TRUE
  ELSE IF n < 1 \/ n % 2 = 1 THEN FALSE
  ELSE halves_to_one(n \div 2)

bad_size(cap, speed) ==
  cap < 2 \/ ~ halves_to_one(cap) \/ speed < 1 \/ speed > 5

\* the elements of c from the head of its free list by next_index
free_elements(c, cap) == walk_next(c.list_storage, c.free_nodes.head_index, cap + 1)

\* C21: hm_cache_place_size and hm_cache_init return HM_ERROR_BAD_SIZE
\* exactly when the capacity is below 2 or no power of two or the speed is
\* outside 1..5, and then nothing is written; with a power of two and a
\* speed in 1..5 and a buffer that is large enough hm_cache_init returns
\* HM_SUCCESS and leaves an empty list, every element on the free list and
\* every hash cell empty
CacheInitChecksSize ==
  cache_build.err # "none" =>
    LET cap == cache_build.capacity
        speed == cache_build.speed
        c == cache_build.cache
    IN  /\ (hm_cache_place_size(cap, speed).err = "HM_ERROR_BAD_SIZE")
              = bad_size(cap, speed)
        /\ hm_cache_place_size(cap, speed).err
              \in {"HM_ERROR_BAD_SIZE", "HM_SUCCESS"}
        /\ (cache_build.err = "HM_ERROR_BAD_SIZE") = bad_size(cap, speed)
        /\ cache_build.err = "HM_ERROR_BAD_SIZE" =>
              /\ cache_build.cache_ptr = "unset"
              /\ c = no_elements
              /\ Cache = hm_cache_init(0, 0)
        /\ (~ bad_size(cap, speed)
              /\ cache_build.cache_place_size >= cache_bytes_needed) =>
              /\ cache_build.err = "HM_SUCCESS"
              /\ cache_build.cache_ptr = "cache"
              /\ c.nodes.head_index = NO_INDEX
              /\ c.nodes.tail_index = NO_INDEX
              /\ { free_elements(c, cap)[k] :
                     k \in 1..Len(free_elements(c, cap)) } = 0..(cap - 1)
              /\ Len(free_elements(c, cap)) = cap
              /\ DOMAIN c.hash_table
                   = 0..(get_hash_table_capacity(cap, speed) - 1)
              /\ \A cell \in DOMAIN c.hash_table :
                   c.hash_table[cell] = NO_INDEX

\* a cache of a capacity above 2 and of the speed 5 is built
CacheInitChecksSizeWitness ==
  /\ cache_build.err = "HM_SUCCESS"
  /\ cache_build.capacity > 2
  /\ cache_build.speed = 5
  /\ cache_build.cache.free_nodes.tail_index = cache_build.capacity - 1

(***************************************************************************)
(* The loop that changes the factors.                                      *)
(***************************************************************************)
\* the keys of the call are not zero and pairwise different, the values of
\* the map are not zero
loop_inputs_valid ==
  /\ Len(u64_loop.keys) > 0
  /\ \A i \in 1..Len(u64_loop.keys) :
       /\ u64_loop.keys[i] # zero_key
       /\ u64_loop.is_map => u64_loop.values[i] # 0
       /\ \A j \in 1..Len(u64_loop.keys) :
            i # j => u64_loop.keys[i] # u64_loop.keys[j]

\* C22: a compile of valid keys (and values) that has entered the loop over
\* the factors leaves it: the passes end with a pass into which all the keys
\* fit.
CalibrationTerminates ==
  (u64_loop.pc = "calibrating" /\ loop_inputs_valid)
    ~> (u64_loop.pc = "calibrated")

\* C27: a pass that found a full quartet leaves in factor1 and in factor2 the
\* same value, the hash of keys[0] under the factors the pass has used, and
\* the next pass starts with the table cleared.
FactorsFromOneHash ==
  [][(u64_loop.pc = "calibrating" /\ u64_loop'.pc = "calibrating"
        /\ u64_loop'.i = 0)
       => LET f == change_factors_to_one_hash(u64_loop.is_map, u64_loop.factor1,
                                              u64_loop.factor2, u64_loop.keys[1])
          IN  /\ u64_loop'.factor1 = f.factor1
              /\ u64_loop'.factor2 = f.factor2
              /\ u64_loop'.hash_table = clear_keys(u64_loop.mask_for_hash)]_vars

(***************************************************************************)
(* The clusters of the hash table of the cache.                            *)
(***************************************************************************)
\* the cells the probe visits from the cell b0 to the cell c, both included,
\* going round the table
probe_path(b0, c) ==
  LET size == mask_for_hash + 1
  IN  {(b0 + n) % size : n \in 0..((c - b0 + size) % size)}

occupied_cells == {c \in Cells : hash_table[c] # NO_INDEX}

\* C23: every cell on the probe path from the natural bucket of a stored key
\* to the cell that holds its element index is occupied.
ClusterInvariant ==
  \A c \in occupied_cells :
    \A c2 \in probe_path(start_bucket(list_storage[hash_table[c]].ip), c) :
      hash_table[c2] # NO_INDEX

\* an add has evicted a key and has left its key past the end of the table,
\* in a cell before its natural bucket
ClusterInvariantWitness ==
  /\ cache_out.op = "add"
  /\ cache_out.evicted
  /\ \E c \in occupied_cells :
       /\ list_storage[hash_table[c]].ip = cache_out.ip
       /\ c < start_bucket(cache_out.ip)

\* C24: the occupied cells are as many as the elements of the LRU list and
\* hold just these elements, the keys of the list differ, they are at most
\* capacity and so at most half of the cells; each probe loop ends: the
\* lookup of any ip and the search of table_delete for a key of the list,
\* and the table has an empty cell for the loop of table_add to end at.
TableHoldsList ==
  LET listed == forward(list_storage, nodes)
  IN  /\ Cardinality(occupied_cells) = Len(listed)
      /\ {hash_table[c] : c \in occupied_cells} = {listed[k] : k \in 1..Len(listed)}
      /\ \A k1, k2 \in 1..Len(listed) :
           k1 # k2 => list_storage[listed[k1]].ip # list_storage[listed[k2]].ip
      /\ Len(listed) <= capacity
      /\ 2 * capacity <= Cardinality(Cells)
      /\ \A ip \in IPs : table_lookup(hash_table, list_storage, ip) # Hang
      /\ \A k \in 1..Len(listed) :
           LET ip == list_storage[listed[k]].ip
           IN  delete_find(hash_table, list_storage, ip, start_bucket(ip), 0) # Hang
      /\ has_empty_cell(hash_table)

\* the list is full after an eviction and both its keys have the same
\* natural bucket
TableHoldsListWitness ==
  /\ cache_out.op = "add"
  /\ cache_out.evicted
  /\ Cardinality(occupied_cells) = capacity
  /\ \A c \in occupied_cells :
       start_bucket(list_storage[hash_table[c]].ip) = start_bucket(cache_out.ip)

(***************************************************************************)
(* The list and the jump table of the prefix map.                          *)
(***************************************************************************)
\* C25: after a successful hm_sm_compile max_ips is strictly increasing as
\* int32_t, its last entry is the endpoint 255.255.255.255 (shifted by
\* ip_xor), and the scan of hm_sm_find stops below list_size for every ip.
\* Stated for the lists of pairwise different prefixes only.
MaxIpsStrictlyIncreasing ==
  (sm_err = "HM_SUCCESS" /\ distinct_prefixes(sm_inputs)) =>
    /\ \A i, j \in 1..sm_db.list_size :
         i < j => int32_less(sm_db.max_ips[i], sm_db.max_ips[j])
    /\ sm_db.max_ips[sm_db.list_size] = xor_ip_xor(IP(255, 255, 255, 255))
    /\ \A ip0 \in QueryIPs :
         scan(sm_db.max_ips, fill_hashtable(sm_db.max_ips, ip0[1]),
              xor_ip_xor(ip0)) < sm_db.list_size

\* the high halves the jump table is looked at for: those of the endpoints
\* of the prefixes, the halves after them, and the ends of the range
JumpHashes == {0, 1, 32767, 32768, 49151, 49152, 65534, 65535}

\* max_ips is in increasing order as int32_t
max_ips_sorted(db) ==
  \A i, j \in 1..db.list_size :
    i < j => int32_less(db.max_ips[i], db.max_ips[j])

\* the first index (from 0) whose entry satisfies at_least, list_size if none
first_index(db, at_least(_)) ==
  IF \E i \in 1..db.list_size : at_least(db.max_ips[i])
  THEN (CHOOSE i \in 1..db.list_size :
          /\ at_least(db.max_ips[i])
          /\ \A j \in 1..(i - 1) : ~at_least(db.max_ips[j])) - 1
  ELSE db.list_size

\* max_ip >= (h << 16) - 1 and max_ip >= h << 16 for the endpoint behind the
\* stored entry, as numbers
at_least_before(h, max_ip) ==
  LET e == xor_ip_xor(max_ip)
  IN  e[1] >= h \/ (e[1] = h - 1 /\ e[2] = Pow2(16) - 1)

at_least_start(h, max_ip) == xor_ip_xor(max_ip)[1] >= h

\* the databases hm_sm_compile and hm_sm_deserialize have left
built_maps ==
  (IF sm_err = "HM_SUCCESS" THEN {sm_db} ELSE {})
    \cup (IF sm_copy.err = "HM_SUCCESS" THEN {sm_copy.db} ELSE {})

Orders(n) == {p \in [1..n -> 1..n] : \A i, j \in 1..n : p[i] = p[j] => i = j}

\* the valid inputs a list is extended by, and no extension
MoreInputs ==
  {<<>>} \cup { <<e>> : e \in {x \in SmInputs : /\ x.value = 2
                                                /\ validate_inputs(<<x>>) = "HM_SUCCESS"} }

\* what the compile of a list gives in a place that is large enough
compiled(inputs) ==
  sm_compile(0, hm_sm_db_place_size(Len(inputs)), inputs)

\* C29: the compile of a valid list of pairwise different prefixes gives the
\* same list_size, max_ips and values in whatever order the list is given.
\* Checked for the list of the last successful compile and for the list
\* extended by one more prefix.
CompileIgnoresOrder ==
  (sm_err = "HM_SUCCESS" /\ ~sm_out.called) =>
    \A more \in MoreInputs :
      LET inputs == sm_inputs \o more
      IN  distinct_prefixes(inputs) =>
            \A r \in {compiled(inputs)} :
              /\ r.err = "HM_SUCCESS"
              /\ Len(more) = 0 => r.db = sm_db
              /\ \A p \in Orders(Len(inputs)) :
                   LET r2 == compiled([i \in 1..Len(inputs) |-> inputs[p[i]]])
                   IN  r2.err = r.err /\ r2.db = r.db

\* two different prefixes were compiled that were given in descending order,
\* the one a part of the other
CompileIgnoresOrderWitness ==
  /\ sm_err = "HM_SUCCESS"
  /\ ~sm_out.called
  /\ Len(sm_inputs) = 2
  /\ input_less(sm_inputs[2], sm_inputs[1])
  /\ sm_inputs[1].ip = sm_inputs[2].ip
  /\ sm_db.list_size > 2

(***************************************************************************)
(* The size of the buffer given to hm_u64map_deserialize.                  *)
(***************************************************************************)
\* C30: with a buffer_size below the serialized size of the bucket count the
\* buffer holds, hm_u64map_db_place_size_from_serialized and
\* hm_u64map_deserialize return HM_ERROR_SMALL_PLACE; the table entries a
\* successful hm_u64map_deserialize has read end within buffer_size.
ShortBufferRejected ==
  (map_copy.err # "none" /\ "buffer_size" \in DOMAIN map_copy) =>
    /\ map_copy.buffer_size < 4 * 8 + 16 * map_buffer.units[3] =>
         /\ map_copy.size_err = "HM_ERROR_SMALL_PLACE"
         /\ map_copy.err = "HM_ERROR_SMALL_PLACE"
    /\ map_copy.err = "HM_SUCCESS" =>
         4 * 8 + 16 * get_buckets(map_copy.db) <= map_copy.buffer_size

(***************************************************************************)
(* The records of the domain set.                                          *)
(***************************************************************************)
\* the record has at most D slots and each of them leaves MAX_DOMAIN_LEN bytes
\* of the blob after its start
record_in_blob(rec, domains_blob_size) ==
  /\ rec.used_slots <= D
  /\ \A i \in 1..rec.used_slots :
       i <= D => rec.domains_blob_offset + D * rec.domains_offsets[i]
                   + MAX_DOMAIN_LEN <= domains_blob_size

records_in_blob(recs, domains_blob_size) ==
  \A r \in 1..Len(recs) : record_in_blob(recs[r], domains_blob_size)

database_in_blob(db) ==
  /\ records_in_blob(db.popular_table, db.domains_blob_size)
  /\ records_in_blob(db.domains_table, db.domains_blob_size)

\* the records of the two tables in the bytes of a buffer
buffer_records(units) ==
  SubSeq(units, 3, 2 + units[2].popular_records + units[2].buckets)

\* C28: every record of the popular table and of the domains table of the
\* database of a successful hm_domain_compile, and of a successful
\* hm_domain_deserialize of any bytes, has used_slots <= D and, for each used
\* slot, its offset and MAX_DOMAIN_LEN inside the blob; hm_domain_deserialize
\* returns HM_ERROR_BAD_VALUE for bytes whose records are not so.
RecordsInBlob ==
  /\ dom_err = "HM_SUCCESS" => database_in_blob(dom_db)
  /\ dom_copy.err = "HM_SUCCESS" => database_in_blob(dom_copy.db)
  /\ (/\ dom_copy.err # "none"
      /\ ~records_in_blob(buffer_records(dom_copy.units),
                          dom_copy.units[2].domains_blob_size))
       => dom_copy.err = "HM_ERROR_BAD_VALUE"

=========================================================================
